---- MODULE Spec2Model ----
(***************************************************************************)
(* A model of the lsp-client runtime.                                      *)
(*                                                                         *)
(* Several parts of the program are modelled, each with its own variables  *)
(* and its own specification; a specification keeps the variables of the   *)
(* other parts at their initial value.                                     *)
(*                                                                         *)
(*   SpecMux    request/response multiplexing: StdioServer.request,        *)
(*              StdioServer._process_worker, ShotTable (utils/channel.py), *)
(*              LSPClientBase._request (per-call timeout, cancellation).   *)
(*   SpecFiles  Client.open_files / file_request over LSPFileBuffer.       *)
(*   SpecLife   Client.__asynccontextmanager__: initialize, initialized,   *)
(*              shutdown, exit and the reaping of the server process.      *)
(*   SpecStart  LSPCapabilityClientBase.start and its worker for the       *)
(*              messages of the server.                                    *)
(*   SpecRun    Client._run_server: the fallback chain of servers,         *)
(*              Server.run and LocalServer.run_process.                    *)
(*   SpecPool   StdioServer with several processes: request, request_all,  *)
(*              notify.                                                    *)
(*   SpecInbound  Server._dispatch and Client._dispatch_server_requests.   *)
(*   SpecCaps   attrs_merge and LSPClientBase.client_capabilities.         *)
(*   SpecUri    LSPClientBase.as_uri over the workspace given to start.    *)
(*   SpecConf   the default configuration map at the entry of the client.  *)
(*   SpecFrame  read_raw_package / write_raw_package: the framing.         *)
(*   SpecShot   oneshot_channel / manyshot_channel of channel.py.          *)
(*   SpecDrain  ShotTable.wait / send / wait_complete (utils/channel.py).   *)
(*   SpecClassify  the `match` of the read loop on a package of the server. *)
(*   SpecWire   concurrent send of packages to the stdin of one process.   *)
(*   SpecDown   the teardown of LSPServerPool.start after the client left. *)
(*   SpecQueue  Sender.send, Receiver.handle and Receiver.join.            *)
(*   SpecDefault  client_capabilities_with_default over the shared default. *)
(*   SpecAssoc  attrs_merge over three documents, in both groupings.       *)
(*                                                                         *)
(* The program is single-threaded and cooperative: a task runs without     *)
(* interruption from one `await` that suspends to the next.  An action of  *)
(* the model is one such uninterrupted run; the tasks that are runnable    *)
(* are taken in any order.                                                 *)
(***************************************************************************)
EXTENDS Integers, Sequences, FiniteSets, TLC

\* ------------------------------------------------------------------ bounds
NumTasks == 2      \* request-issuing tasks of SpecMux
NumIds == 2        \* request ids a task may choose from
NumCallers == 2    \* tasks of SpecFiles that open files and issue file requests
NumFiles == 2      \* files (uris) they may name
MaxDepth == 2      \* nesting depth of open_files scopes in one task
MaxScopes == 3     \* open_files scopes entered in a run, all tasks together
MaxRequests == 2   \* requests the body of the client scope issues (SpecLife)
MaxInbound == 2    \* messages the server sends to the client in a session (SpecStart)
MaxFromServer == 2 \* requests and notifications the server sends (SpecInbound)
MaxAsked == 2      \* requests the body sends to the chosen server (SpecRun)
PipeCapacity == 2  \* lines of log the stderr pipe of the process holds (SpecRun)
NumReplicas == 2   \* processes of the server pool (SpecPool)
MaxPoolOps == 2    \* calls made on the server pool (SpecPool)
NumAtoms == 2      \* values that are not attrs instances (SpecCaps)
MaxComputations == 2  \* computations of client_capabilities (SpecCaps)
MaxParts == 2      \* parts of a relative path given to as_uri (SpecUri)
MaxEntries == 4    \* times the scope of one client object is entered (SpecConf)
MaxFrames == 2     \* frames the server writes (SpecFrame)
MaxPayload == 1    \* bytes of the members of a package (SpecFrame)
NumItems == 2      \* items that may be sent on a channel (SpecShot)
MaxExpect == 2     \* expect_count of a many-shot channel (SpecShot)
MaxSends == 4      \* calls of send on one sender (SpecShot)
NumDrainers == 2   \* tasks that call wait_complete (SpecDrain)
MaxMessages == 2   \* packages the server writes (SpecClassify)
NumWriters == 2    \* tasks that send to one server process (SpecWire)
MaxWrites == 2     \* packages they send, all together (SpecWire)
MaxDownRequests == 1  \* requests the client sends before it leaves (SpecDown)
NumHandlers == 2   \* tasks that take items with Receiver.handle (SpecQueue)
MaxPuts == 2       \* items sent on the queue channel (SpecQueue)
MaxUpdateKeys == 1 \* items of the update of client_capabilities_with_default (SpecDefault)
MaxDefaultCalls == 2  \* calls of client_capabilities_with_default (SpecDefault)

Tasks == 1..NumTasks
IDs == 1..NumIds
Callers == 1..NumCallers
Files == 1..NumFiles
NoTask == 0
NoId == 0

VARIABLES
    \* ---- SpecMux
    pc,            \* pc[t]: where task t is inside LSPClientBase._request
    reqId,         \* reqId[t]: the id of the request task t issued (NoId before)
    outcome,       \* outcome[t]: how the call of task t ended
    result,        \* result[t]: the raw response the call returned
    pending,       \* ShotTable._pending: id -> the task whose sender is registered
    event,         \* event[t]: the DataEvent of the one-shot channel wait() created
    stdin,         \* requests written to the server and not yet answered
    stdout,        \* responses written by the server, not yet read (in order)
    stdoutClosed,  \* the server closed its stdout (the process died or exited)
    handlers,      \* handle(package) tasks created by the read loop, not yet run
    worker,        \* state of StdioServer._process_worker
    atEof,         \* the tasks that were registered and unanswered at end-of-stream
    registered,    \* the tasks whose sender was stored in the table at some time
    queueShutdown, \* runtime.queue.shutdown() was called (dispatch channel closed)
    \* ---- SpecFiles
    ref_count,     \* LSPFileBuffer._ref_count: file -> count
    lookup,        \* LSPFileBuffer._lookup: the files that have a buffer item
    stack,         \* stack[t]: the open_files scopes task t is inside (innermost last)
    phase,         \* phase[t]: where task t is suspended
    cur,           \* cur[t]: the open_files call task t is entering or leaving
    exc,           \* exc[t]: the exception propagating in task t ("none" if none)
    budget,        \* scopes that may still be entered in this run
    srvOpen,       \* srvOpen[f]: the server has f open (last of didOpen/didClose(f))
    last,          \* the last message written to the server
    nOpen,         \* nOpen[f]: didOpen(f) written so far
    nClose,        \* nClose[f]: didClose(f) written so far
    up,            \* up[f]: times ref_count[f] went from 0 to 1
    down,          \* down[f]: times ref_count[f] went from 1 to 0
    abnormal,      \* some call timed out or was cancelled so far
    entered,       \* the tasks that have entered an open_files scope so far
    \* ---- SpecLife
    clientPc,      \* where the task inside Client.__asynccontextmanager__ is
    wire,          \* the messages the client has written to the server, in order
    srvRead,       \* how many of them the server has read
    reply,         \* the server's response to the request the client waits on
    debug,         \* __debug__ (False under python -O)
    initResult,    \* how the initialize request ended
    nReq,          \* requests the body has issued
    raised,        \* the exception that leaves (or will leave) the client scope
    proc,          \* the server process: "running", "exited" or "killed"
    acceptedAt,    \* the states of the client in which a request of another task was written
    rejectedAt,    \* the states of the client in which such a request was refused
    mainSent,      \* the place on the wire of the last request of the scope's own task
    \* ---- SpecStart
    startPc,       \* where the task inside LSPCapabilityClientBase.start is
    inbox,         \* the client's receiver queue: server messages put and not yet got
    unfinished,    \* asyncio.Queue._unfinished_tasks of that queue
    dispatching,   \* dispatch(req) tasks of _server_request_worker, created and not yet run
    workerUp,      \* the _server_request_worker task exists and is not cancelled
    nInbound,      \* messages the server has sent to the client
    replied,       \* requests of the server that were answered (tx.send)
    posted,        \* the lifecycle messages the client put on its sender, in order
    \* ---- SpecRun
    serverArg,     \* Client._server_arg: "none", a Server ("server"), "local", "container"
    iterPc,        \* where _iter_candidate_servers is suspended
    candidate,     \* the candidate of the running iteration of _run_server
    attempted,     \* the candidates whose run() was called, in order
    errors,        \* the list `errors` of _run_server: the candidate of each cause
    runPc,         \* where candidate.run / run_process is
    srvProcess,    \* LocalServer._process: "unset", "alive", "exited", "killed"
    inflight,      \* the exception that is propagating (NoExc: none)
    scopePc,       \* the client scope: entering, body, exiting, returned, raised
    bodyExc,       \* what the body of the client scope raised
    runServerExc,  \* what _run_server raised
    callerExc,     \* what the caller of the client scope gets
    entryExc,      \* what the last entry of run_process raised
    usedAt,        \* index in attempted of the candidate that was entered (0: none)
    dispatchTask,  \* the Server._dispatch task: none, running, done, cancelled
    stderrFill,    \* lines of log held by the stderr pipe of the process
    srvBlocked,    \* the process is blocked in a write to its full stderr pipe
    asked,         \* requests the body sent to the server
    answered,      \* requests the server answered
    \* ---- SpecPool
    poolOps,       \* the calls made on the pool, in order: kind and position
    poolWritten,   \* poolWritten[r]: the packages written to the stdin of process r
    poolPending,   \* ShotTable._pending: id -> "none", "one" (OneShot), "many" (ManyShot)
    poolGot,       \* poolGot[i]: items the event of call i holds
    poolOut,       \* poolOut[r]: ids of the responses process r wrote, not yet handled
    poolAnswered,  \* poolAnswered[r]: packages of its stdin process r has dealt with
    poolWorkers,   \* the _process_worker tasks: running or failed
    \* ---- SpecInbound
    inb,           \* the requests and notifications the servers wrote, with their position
    chan,          \* the channel of server requests: ids sent and not yet received
    delivered,     \* ids of the notifications given to their hooks, in order
    srvReplies,    \* the responses written to the servers, in order
    \* -- SpecCaps
    mergeArgs,     \* the two documents given: <<base, update>>, as declared
    heap,          \* the attrs instances that exist, by address
    fragments,     \* per computation, the documents the mix-ins returned
    docs,          \* per computation, the merged document
    merged,        \* the call attrs_merge(base, update) and what it returned
    \* -- SpecUri
    rawWorkspace,  \* the workspace argument of start
    filePath,      \* the path given to as_uri
    uriOut,        \* what as_uri returned or raised
    \* -- SpecConf
    supportsConf,  \* isinstance(client, WithRespondConfigurationRequest)
    defaultConf,   \* what create_default_configuration_map() returns
    configuration_map,  \* the attribute of the client
    confPc,        \* "constructed" (outside the scope) or "entered"
    mapBefore,     \* configuration_map when the scope was last entered
    entries,       \* how often the scope was entered
    \* -- SpecFrame
    frames,        \* the frames the server wrote, in order
    inBytes,       \* the bytes of the server's stdout not consumed yet
    readOut,       \* what the calls of receive gave, in order
    readPc,        \* the read loop: "reading", "eof" or "failed"
    \* -- SpecShot
    shotEvent,     \* the event the sender and the receiver of one channel share
    shotCalls,     \* the calls of send made on its sender, in order: item and outcome
    shotGot,       \* what receive() returned, once it has
    \* -- SpecDrain
    tblPending,    \* ShotTable._pending: the ids that have a sender
    tblPc,         \* where the task that waits for the response to id t is
    tblEvent,      \* the event of the sender of id t is set
    drainPc,       \* where the tasks that call wait_complete are
    \* -- SpecClassify
    rxWire,        \* the packages the server wrote, in order
    rxRead,        \* how many of them the read loop has read
    rxTasks,       \* the packages that have a handle task that has not run
    rxTable,       \* the calls of send on the response table, in order
    rxChannel,     \* the items sent on the sender of server requests, in order
    rxCreated,     \* the response channels created
    \* -- SpecWire
    wrPipe,        \* the bytes the pipe to the stdin of the process has taken
    wrBuffer,      \* the bytes in the buffer of the transport, not yet in the pipe
    wrPc,          \* the sending tasks: idle or suspended in drain
    wrLeft,        \* per task, the calls of sender.send it has still to make
    wrLog,         \* the packages given to send, in the order of the calls: task and bytes
    \* -- SpecDown
    dnItems,       \* the items the client put on the request channel, in order
    dnClient,      \* the client: body, shutdown (sent) or exited
    dnTable,       \* LSPServerPool._client_req_table: the ids registered
    dnWritten,     \* the items written to the process, in order
    dnPool,        \* where LSPServerPool.start is after its yield
    dnWorkers,     \* the tasks _process_worker and _client_worker: running or cancelled
    dnProc,        \* the server process: running or reaped
    dnClosed,      \* LSPServerPool._closed
    \* -- SpecQueue
    qItems,        \* the items in the queue of the channel
    qUnfinished,   \* asyncio.Queue._unfinished_tasks
    qPc,           \* the tasks that use Receiver.handle: idle, waiting, processing or ended
    qSent,         \* items sent
    qProcessed,    \* items received whose processing has ended
    qDoneCalls,    \* calls of task_done that returned
    qRaised,       \* the tasks in which task_done raised ValueError
    qJoin,         \* the task in Receiver.join: idle, waiting or returned
    \* -- SpecDefault
    defHeap,       \* the attrs instances that exist, the module-level document among them
    defCalls,      \* the calls of client_capabilities_with_default: update and outcome
    \* -- SpecAssoc
    assocArgs,     \* the three documents given: <<a, b, c>>, as declared
    assocOut       \* the two groupings of their merge, once computed

muxVars == <<pc, reqId, outcome, result, pending, event, stdin, stdout,
             stdoutClosed, handlers, worker, atEof, registered,
             queueShutdown>>

fileVars == <<ref_count, lookup, stack, phase, cur, exc, budget, srvOpen, last,
              nOpen, nClose, up, down, abnormal, entered>>

reqVars == <<acceptedAt, rejectedAt>>

lifeVars == <<clientPc, wire, srvRead, reply, debug, initResult, nReq, raised,
              proc, reqVars, mainSent>>

startVars == <<startPc, inbox, unfinished, dispatching, workerUp, nInbound,
               replied, posted>>

\* What the actions of one part leave unchanged: the variables of the others.
stderrVars == <<stderrFill, srvBlocked, asked, answered>>

runVars == <<serverArg, iterPc, candidate, attempted, errors, runPc, srvProcess,
             inflight, scopePc, bodyExc, runServerExc, callerExc, entryExc,
             usedAt, dispatchTask, stderrVars>>

poolVars == <<poolOps, poolWritten, poolPending, poolGot, poolOut, poolAnswered,
              poolWorkers>>

inboundVars == <<inb, chan, delivered, srvReplies>>

capsVars == <<mergeArgs, heap, fragments, docs, merged>>

\* The parts that compute a function of their arguments.
uriVars == <<rawWorkspace, filePath, uriOut>>

confVars == <<supportsConf, defaultConf, configuration_map, confPc, mapBefore, entries>>

frameVars == <<frames, inBytes, readOut, readPc>>

\* The parts on the channels, the wire and the teardown.
shotVars == <<shotEvent, shotCalls, shotGot>>

drainVars == <<tblPending, tblPc, tblEvent, drainPc>>

classifyVars == <<rxWire, rxRead, rxTasks, rxTable, rxChannel, rxCreated>>

wireVars == <<wrPipe, wrBuffer, wrPc, wrLeft, wrLog>>

downVars == <<dnItems, dnClient, dnTable, dnWritten, dnPool, dnWorkers, dnProc, dnClosed>>

queueVars == <<qItems, qUnfinished, qPc, qSent, qProcessed, qDoneCalls, qRaised, qJoin>>

defaultVars == <<defHeap, defCalls>>

assocVars == <<assocArgs, assocOut>>

moreVars == <<shotVars, drainVars, classifyVars, wireVars, downVars, queueVars, defaultVars, assocVars>>

pureVars == <<capsVars, uriVars, confVars, frameVars, moreVars>>

stateVars == <<muxVars, fileVars, lifeVars, startVars, runVars, poolVars, inboundVars>>

nonMuxVars == <<fileVars, lifeVars, startVars, runVars, poolVars, inboundVars, pureVars>>
nonFileVars == <<muxVars, lifeVars, startVars, runVars, poolVars, inboundVars, pureVars>>
nonLifeVars == <<muxVars, fileVars, startVars, runVars, poolVars, inboundVars, pureVars>>
nonStartVars == <<muxVars, fileVars, lifeVars, runVars, poolVars, inboundVars, pureVars>>
nonRunVars == <<muxVars, fileVars, lifeVars, startVars, poolVars, inboundVars, pureVars>>
nonPoolVars == <<muxVars, fileVars, lifeVars, startVars, runVars, inboundVars, pureVars>>
nonInboundVars == <<muxVars, fileVars, lifeVars, startVars, runVars, poolVars, pureVars>>
nonCapsVars == <<stateVars, uriVars, confVars, frameVars, moreVars>>
nonUriVars == <<stateVars, capsVars, confVars, frameVars, moreVars>>
nonConfVars == <<stateVars, capsVars, uriVars, frameVars, moreVars>>
nonFrameVars == <<stateVars, capsVars, uriVars, confVars, moreVars>>
nonShotVars == <<stateVars, capsVars, uriVars, confVars, frameVars, drainVars, classifyVars, wireVars, downVars, queueVars, defaultVars, assocVars>>
nonDrainVars == <<stateVars, capsVars, uriVars, confVars, frameVars, shotVars, classifyVars, wireVars, downVars, queueVars, defaultVars, assocVars>>
nonClassifyVars == <<stateVars, capsVars, uriVars, confVars, frameVars, shotVars, drainVars, wireVars, downVars, queueVars, defaultVars, assocVars>>
nonWireVars == <<stateVars, capsVars, uriVars, confVars, frameVars, shotVars, drainVars, classifyVars, downVars, queueVars, defaultVars, assocVars>>
nonDownVars == <<stateVars, capsVars, uriVars, confVars, frameVars, shotVars, drainVars, classifyVars, wireVars, queueVars, defaultVars, assocVars>>
nonQueueVars == <<stateVars, capsVars, uriVars, confVars, frameVars, shotVars, drainVars, classifyVars, wireVars, downVars, defaultVars, assocVars>>
nonDefaultVars == <<stateVars, capsVars, uriVars, confVars, frameVars, shotVars, drainVars, classifyVars, wireVars, downVars, queueVars, assocVars>>
nonAssocVars == <<stateVars, capsVars, uriVars, confVars, frameVars, shotVars, drainVars, classifyVars, wireVars, downVars, queueVars, defaultVars>>

vars == <<stateVars, pureVars>>

\* ------------------------------------------------------------------ values
None == [id |-> NoId, for |-> NoTask]
\* A response package: the id it bears and (a ghost field) the task whose
\* request the server answered with it.
Response(i, t) == [id |-> i, for |-> t]
Responses == [id : IDs, for : Tasks]

UnsetEvent == [set |-> FALSE, data |-> None]

\* DataEvent.set_data
set_data(e, data) == [set |-> TRUE, data |-> data]

\* dict.pop(id, None) on ShotTable._pending
pop(table, i) == [table EXCEPT ![i] = NoTask]

\* ShotTable.completed
completed == \A i \in IDs : pending[i] = NoTask

\* ------------------------------------------------------------------ SpecMux
InitMux ==
    /\ pc = [t \in Tasks |-> "idle"]
    /\ reqId = [t \in Tasks |-> NoId]
    /\ outcome = [t \in Tasks |-> "none"]
    /\ result = [t \in Tasks |-> None]
    /\ pending = [i \in IDs |-> NoTask]
    /\ event = [t \in Tasks |-> UnsetEvent]
    /\ stdin = {}
    /\ stdout = <<>>
    /\ stdoutClosed = FALSE
    /\ handlers = <<>>
    /\ worker = "running"
    /\ atEof = {}
    /\ registered = {}
    /\ queueShutdown = FALSE

\* StdioServer.request, first await: process.send(request).  The request is
\* written; the task is suspended in the write and has not registered yet.
\* (The tasks are interchangeable: they are numbered in the order in which
\* they write their request.  So are the ids: a request bears an id used
\* before or the least id not used yet.)
Request(t, i) ==
    /\ pc[t] = "idle"
    /\ \A s \in Tasks : s < t => pc[s] # "idle"
    /\ \A j \in IDs : j < i => \E s \in Tasks : reqId[s] = j
    /\ ~queueShutdown
    /\ pc' = [pc EXCEPT ![t] = "sent"]
    /\ reqId' = [reqId EXCEPT ![t] = i]
    /\ stdin' = stdin \cup {Response(i, t)}
    /\ UNCHANGED <<nonMuxVars, outcome, result, pending, event, stdout, stdoutClosed,
                   handlers, worker, atEof, registered, queueShutdown>>

\* ShotTable.register as called from ShotTable.wait: an id already present
\* raises ValueError, and wait's `finally` then pops that id from the table.
\* Otherwise the sender is stored and the task waits in rx.receive().
\* (The condition's lock is never held across an await, so acquiring it never
\* suspends: the check and the insertion are one uninterrupted run.)
RegisterBody(t) ==
    IF pending[reqId[t]] # NoTask
    THEN /\ pending' = pop(pending, reqId[t])
         /\ pc' = [pc EXCEPT ![t] = "done"]
         /\ outcome' = [outcome EXCEPT ![t] = "ValueError"]
    ELSE /\ pending' = [pending EXCEPT ![reqId[t]] = t]
         /\ pc' = [pc EXCEPT ![t] = "waiting"]
         /\ UNCHANGED outcome

Register(t) ==
    /\ pc[t] = "sent"
    /\ RegisterBody(t)
    /\ registered' = IF pending[reqId[t]] = NoTask
                     THEN registered \cup {t} ELSE registered
    /\ UNCHANGED <<nonMuxVars, reqId, result, event, stdin, stdout, stdoutClosed,
                   handlers, worker, atEof, queueShutdown>>

\* Mutant of WaitFinally: the wait ends without popping its id.
WaitFinally_keep(t) == pending

\* ShotTable.wait, `finally`: the id is popped whatever way the wait ends.
WaitFinally(t) == pop(pending, reqId[t])

\* rx.receive() returns: the event is set, the task resumes and returns the data.
Complete(t) ==
    /\ pc[t] = "waiting"
    /\ event[t].set
    /\ result' = [result EXCEPT ![t] = event[t].data]
    /\ outcome' = [outcome EXCEPT ![t] = "response"]
    /\ pc' = [pc EXCEPT ![t] = "done"]
    /\ pending' = WaitFinally(t)
    /\ UNCHANGED <<nonMuxVars, reqId, event, stdin, stdout, stdoutClosed, handlers, worker,
                   atEof, registered, queueShutdown>>

\* The call is abandoned while it is suspended: aio.wait_for's timeout in
\* LSPClientBase._request (how = "TimeoutError") or cancellation of the caller
\* (how = "CancelledError").  Suspended in the write, the call has no entry
\* yet; suspended in rx.receive(), wait's `finally` pops its id.
Abandon(t, how) ==
    /\ pc[t] \in {"sent", "waiting"}
    /\ pending' = IF pc[t] = "waiting" THEN WaitFinally(t) ELSE pending
    /\ outcome' = [outcome EXCEPT ![t] = how]
    /\ pc' = [pc EXCEPT ![t] = "done"]
    /\ UNCHANGED <<nonMuxVars, reqId, result, event, stdin, stdout, stdoutClosed, handlers,
                   worker, atEof, registered, queueShutdown>>

Timeout(t) == Abandon(t, "TimeoutError")

Cancel(t) == Abandon(t, "CancelledError")

\* The server answers any request it has read, in any order.
ServerRespond(r) ==
    /\ r \in stdin
    /\ ~stdoutClosed
    /\ stdin' = stdin \ {r}
    /\ stdout' = Append(stdout, r)
    /\ UNCHANGED <<nonMuxVars, pc, reqId, outcome, result, pending, event, stdoutClosed,
                   handlers, worker, atEof, registered, queueShutdown>>

\* The server process closes its stdout.
ServerClose ==
    /\ ~stdoutClosed
    /\ stdoutClosed' = TRUE
    /\ UNCHANGED <<nonMuxVars, pc, reqId, outcome, result, pending, event, stdin, stdout,
                   handlers, worker, atEof, registered, queueShutdown>>

\* StdioProcess.receive / LocalServer.receive: the next package, or None at
\* end-of-stream.
receive(stream) ==
    IF stream # <<>> THEN Head(stream) ELSE None

\* The read loop of _process_worker: `while package := await process.receive()`.
\* A package starts a handle(package) task; None ends the loop, and nothing
\* else is done at end-of-stream.
ProcessWorker ==
    /\ worker = "running"
    /\ stdout # <<>> \/ stdoutClosed
    /\ LET package == receive(stdout) IN
       IF package # None
       THEN /\ handlers' = Append(handlers, package)
            /\ stdout' = Tail(stdout)
            /\ UNCHANGED <<worker, atEof>>
       ELSE /\ worker' = "eof"
            /\ atEof' = {t \in Tasks :
                            /\ pc[t] = "waiting"
                            /\ ~event[t].set
                            /\ \A k \in 1..Len(handlers) :
                                   handlers[k].id # reqId[t]}
            /\ UNCHANGED <<handlers, stdout>>
    /\ UNCHANGED <<nonMuxVars, pc, reqId, outcome, result, pending, event, stdin,
                   stdoutClosed, registered, queueShutdown>>

\* Mutant of ShotTable_send: the response goes to the oldest registered
\* sender (correlation by arrival order), whatever id it bears.
ShotTable_send_arrival(table, ev, i, data) ==
    IF \A j \in IDs : table[j] = NoTask THEN <<table, ev, TRUE>>
    ELSE LET j == CHOOSE j \in IDs :
                      /\ table[j] # NoTask
                      /\ \A k \in IDs : k < j => table[k] = NoTask
         IN  <<pop(table, j), [ev EXCEPT ![table[j]] = set_data(@, data)], FALSE>>

\* ShotTable.send(id, data): an unknown id raises ValueError; otherwise the
\* data is sent through the registered sender (OneShotSender.send raises
\* RuntimeError when its event is already set) and the entry is popped.
\* Yields <<table', event', raised>>.
ShotTable_send(table, ev, i, data) ==
    IF table[i] = NoTask THEN <<table, ev, TRUE>>
    ELSE IF ev[table[i]].set THEN <<table, ev, TRUE>>
    ELSE <<pop(table, i), [ev EXCEPT ![table[i]] = set_data(@, data)], FALSE>>

\* handle(package) of _process_worker for a response package.  An exception
\* escapes the task group: the worker fails and its other handlers are
\* cancelled.
Handle ==
    /\ handlers # <<>>
    /\ worker # "failed"
    /\ LET resp == Head(handlers)
           sent == ShotTable_send(pending, event, resp.id, resp)
       IN  /\ pending' = sent[1]
           /\ event' = sent[2]
           /\ IF sent[3]
              THEN worker' = "failed" /\ handlers' = <<>>
              ELSE worker' = worker /\ handlers' = Tail(handlers)
    /\ UNCHANGED <<nonMuxVars, pc, reqId, outcome, result, stdin, stdout, stdoutClosed,
                   atEof, registered, queueShutdown>>

\* StdioServer.run, after its `async with`: the body is over and the worker
\* task group has ended without an exception; the queue is shut down.
RunExit ==
    /\ worker = "eof"
    /\ handlers = <<>>
    /\ \A t \in Tasks : pc[t] \in {"idle", "done"}
    /\ ~queueShutdown
    /\ queueShutdown' = TRUE
    /\ UNCHANGED <<nonMuxVars, pc, reqId, outcome, result, pending, event, stdin, stdout,
                   stdoutClosed, handlers, worker, atEof, registered>>

NextMux ==
    \/ \E t \in Tasks, i \in IDs : Request(t, i)
    \/ \E t \in Tasks : Register(t)
    \/ \E t \in Tasks : Complete(t)
    \/ \E t \in Tasks : Timeout(t)
    \/ \E t \in Tasks : Cancel(t)
    \/ \E r \in Responses : ServerRespond(r)
    \/ ServerClose
    \/ ProcessWorker
    \/ Handle
    \/ RunExit

\* ------------------------------------------------------------------ SpecFiles
\* Client.open_files (client/abc.py), LSPFileBuffer (capability/file_buffer.py)
\* and file_request (protocol/client.py).  sync_file is True.

NoCall == [files |-> {}, items |-> {}, todo |-> {}, kind |-> "none"]
NoMessage == [kind |-> "none", files |-> {}, wasOpen |-> FALSE]

\* A message about the files fs as it reaches the server; wasOpen records
\* whether the server had all of them open at that moment.
Message(kind, fs) ==
    [kind |-> kind, files |-> fs, wasOpen |-> \A f \in fs : srvOpen[f]]

\* The innermost scope of task t.
Top(t) == stack[t][Len(stack[t])]

InitFiles ==
    /\ ref_count = [f \in Files |-> 0]
    /\ lookup = {}
    /\ stack = [t \in Callers |-> <<>>]
    /\ phase = [t \in Callers |-> "run"]
    /\ cur = [t \in Callers |-> NoCall]
    /\ exc = [t \in Callers |-> "none"]
    /\ budget = MaxScopes
    /\ srvOpen = [f \in Files |-> FALSE]
    /\ last = NoMessage
    /\ nOpen = [f \in Files |-> 0]
    /\ nClose = [f \in Files |-> 0]
    /\ up = [f \in Files |-> 0]
    /\ down = [f \in Files |-> 0]
    /\ abnormal = FALSE
    /\ entered = {}

\* Counter.update(file_uris)
Counter_update(counter, fs) ==
    [f \in Files |-> IF f \in fs THEN counter[f] + 1 ELSE counter[f]]

\* Counter.subtract(file_uris)
Counter_subtract(counter, fs) ==
    [f \in Files |-> IF f \in fs THEN counter[f] - 1 ELSE counter[f]]

\* Task t enters `async with open_files(fs)`: directly (kind "scope", the body
\* is the caller's) or through file_request (kind "request", the body is one
\* request).  LSPFileBuffer.open up to its await: the counts of all the files
\* named go up, the files without a buffer item are selected, and the task is
\* suspended reading them.  (The tasks are interchangeable: they are numbered
\* in the order in which they first enter a scope.)
OpenFiles(t, fs, kind) ==
    /\ phase[t] = "run"
    /\ \A s \in Callers : s < t => s \in entered
    /\ exc[t] = "none"
    /\ budget > 0
    /\ Len(stack[t]) < MaxDepth
    /\ stack[t] # <<>> => Top(t).st = "body"
    /\ fs # {}
    /\ ref_count' = Counter_update(ref_count, fs)
    /\ up' = [f \in Files |->
                 IF f \in fs /\ ref_count[f] = 0 THEN up[f] + 1 ELSE up[f]]
    /\ cur' = [cur EXCEPT ![t] = [files |-> fs, items |-> fs \ lookup,
                                  todo |-> {}, kind |-> kind]]
    /\ phase' = [phase EXCEPT ![t] = "reading"]
    /\ budget' = budget - 1
    /\ entered' = entered \cup {t}
    /\ UNCHANGED <<nonFileVars, lookup, stack, exc, srvOpen, last, nOpen, nClose,
                   down, abnormal>>

\* LSPFileBuffer.open after its await: the items read are stored in _lookup
\* and returned; open_files then starts one notify_text_document_opened task
\* for each of them.
ReadDone(t) ==
    /\ phase[t] = "reading"
    /\ lookup' = lookup \cup cur[t].items
    /\ cur' = [cur EXCEPT ![t].todo = cur[t].items]
    /\ phase' = [phase EXCEPT ![t] = "opening"]
    /\ UNCHANGED <<nonFileVars, entered, ref_count, stack, exc, budget, srvOpen, last, nOpen,
                   nClose, up, down, abnormal>>

\* One notify_text_document_opened task of t's task group writes didOpen(f).
NotifyOpened(t, f) ==
    /\ phase[t] = "opening"
    /\ f \in cur[t].todo
    /\ last' = Message("didOpen", {f})
    /\ srvOpen' = [srvOpen EXCEPT ![f] = TRUE]
    /\ nOpen' = [nOpen EXCEPT ![f] = @ + 1]
    /\ cur' = [cur EXCEPT ![t].todo = @ \ {f}]
    /\ UNCHANGED <<nonFileVars, entered, ref_count, lookup, stack, phase, exc, budget,
                   nClose, up, down, abnormal>>

\* The task group of the didOpen notifications is over: open_files reaches its
\* `try: yield` and the body of the scope starts.
Opened(t) ==
    /\ phase[t] = "opening"
    /\ cur[t].todo = {}
    /\ stack' = [stack EXCEPT ![t] =
                    Append(@, [files |-> cur[t].files, items |-> cur[t].items,
                               st |-> IF cur[t].kind = "request"
                                      THEN "req_todo" ELSE "body"])]
    /\ cur' = [cur EXCEPT ![t] = NoCall]
    /\ phase' = [phase EXCEPT ![t] = "run"]
    /\ UNCHANGED <<nonFileVars, entered, ref_count, lookup, exc, budget, srvOpen, last,
                   nOpen, nClose, up, down, abnormal>>

\* The task is cancelled while it reads the files, or while its task group of
\* didOpen notifications runs, or one of these notifications times out
\* (anyio.fail_after in Client.notify); the notifications not yet written are
\* cancelled with it.  Both awaits are before the `try` of open_files: the
\* exception leaves open_files with no `finally` run, and propagates through
\* the scopes the task is inside.
OpenFails(t, how) ==
    /\ \/ phase[t] = "reading" /\ how = "CancelledError"
       \/ phase[t] = "opening"
    /\ cur' = [cur EXCEPT ![t] = NoCall]
    /\ phase' = [phase EXCEPT ![t] = "run"]
    /\ exc' = [exc EXCEPT ![t] = IF stack[t] = <<>> THEN "none" ELSE how]
    /\ abnormal' = TRUE
    /\ UNCHANGED <<nonFileVars, entered, ref_count, lookup, stack, budget, srvOpen, last,
                   nOpen, nClose, up, down>>

\* file_request, inside its scope: Client.request writes the request.
SendRequest(t) ==
    /\ phase[t] = "run"
    /\ exc[t] = "none"
    /\ stack[t] # <<>>
    /\ Top(t).st = "req_todo"
    /\ last' = Message("request", Top(t).files)
    /\ phase' = [phase EXCEPT ![t] = "requesting"]
    /\ UNCHANGED <<nonFileVars, entered, ref_count, lookup, stack, cur, exc, budget, srvOpen,
                   nOpen, nClose, up, down, abnormal>>

\* The response arrives and Client.request returns.
RequestReturns(t) ==
    /\ phase[t] = "requesting"
    /\ stack' = [stack EXCEPT ![t][Len(stack[t])].st = "req_done"]
    /\ phase' = [phase EXCEPT ![t] = "run"]
    /\ UNCHANGED <<nonFileVars, entered, ref_count, lookup, cur, exc, budget, srvOpen, last,
                   nOpen, nClose, up, down, abnormal>>

\* The request times out (anyio.fail_after(request_timeout)) or its task is
\* cancelled: the exception is raised inside the `try` of open_files.
RequestFails(t, how) ==
    /\ phase[t] = "requesting"
    /\ exc' = [exc EXCEPT ![t] = how]
    /\ phase' = [phase EXCEPT ![t] = "run"]
    /\ abnormal' = TRUE
    /\ UNCHANGED <<nonFileVars, entered, ref_count, lookup, stack, cur, budget, srvOpen,
                   last, nOpen, nClose, up, down>>

\* LSPFileBuffer.close as open_files calls it: _ref_count.subtract over the
\* uris of buffer_items, the items this scope's open() returned.
CloseCounts(files, items) == Counter_subtract(ref_count, items)

\* The `finally` of open_files, for the innermost scope of t, when its body
\* ends or an exception propagates through it: LSPFileBuffer.close, which
\* pops from _lookup every file whose count is not positive; then one
\* notify_text_document_closed task is started for each file popped.
ExitScope(t) ==
    /\ phase[t] = "run"
    /\ stack[t] # <<>>
    /\ exc[t] # "none" \/ Top(t).st \in {"body", "req_done"}
    /\ LET counts == CloseCounts(Top(t).files, Top(t).items)
           closed == {f \in lookup : counts[f] <= 0}
       IN  /\ ref_count' = counts
           /\ down' = [f \in Files |->
                          IF ref_count[f] = 1 /\ counts[f] = 0
                          THEN down[f] + 1 ELSE down[f]]
           /\ lookup' = lookup \ closed
           /\ cur' = [cur EXCEPT ![t] =
                         [files |-> Top(t).files, items |-> Top(t).items,
                          todo |-> closed, kind |-> "close"]]
    /\ stack' = [stack EXCEPT ![t] = SubSeq(@, 1, Len(@) - 1)]
    /\ phase' = [phase EXCEPT ![t] = "closing"]
    /\ UNCHANGED <<nonFileVars, entered, exc, budget, srvOpen, last, nOpen, nClose, up,
                   abnormal>>

\* One notify_text_document_closed task of t's task group writes didClose(f).
NotifyClosed(t, f) ==
    /\ phase[t] = "closing"
    /\ f \in cur[t].todo
    /\ last' = Message("didClose", {f})
    /\ srvOpen' = [srvOpen EXCEPT ![f] = FALSE]
    /\ nClose' = [nClose EXCEPT ![f] = @ + 1]
    /\ cur' = [cur EXCEPT ![t].todo = @ \ {f}]
    /\ UNCHANGED <<nonFileVars, entered, ref_count, lookup, stack, phase, exc, budget,
                   nOpen, up, down, abnormal>>

\* The task group of the didClose notifications is over: open_files is left.
\* An exception goes on to the enclosing scope, or to the caller of the
\* outermost one.
Closed(t) ==
    /\ phase[t] = "closing"
    /\ cur[t].todo = {}
    /\ cur' = [cur EXCEPT ![t] = NoCall]
    /\ phase' = [phase EXCEPT ![t] = "run"]
    /\ exc' = [exc EXCEPT ![t] = IF stack[t] = <<>> THEN "none" ELSE @]
    /\ UNCHANGED <<nonFileVars, entered, ref_count, lookup, stack, budget, srvOpen, last,
                   nOpen, nClose, up, down, abnormal>>

NextFiles ==
    \/ \E t \in Callers, fs \in SUBSET Files, kind \in {"scope", "request"} :
           OpenFiles(t, fs, kind)
    \/ \E t \in Callers : ReadDone(t)
    \/ \E t \in Callers, f \in Files : NotifyOpened(t, f)
    \/ \E t \in Callers : Opened(t)
    \/ \E t \in Callers, how \in {"TimeoutError", "CancelledError"} :
           OpenFails(t, how)
    \/ \E t \in Callers : SendRequest(t)
    \/ \E t \in Callers : RequestReturns(t)
    \/ \E t \in Callers, how \in {"TimeoutError", "CancelledError"} :
           RequestFails(t, how)
    \/ \E t \in Callers : ExitScope(t)
    \/ \E t \in Callers, f \in Files : NotifyClosed(t, f)
    \/ \E t \in Callers : Closed(t)

\* ------------------------------------------------------------------ SpecLife
\* Client.__asynccontextmanager__ (client/abc.py): _initialize, the body of
\* the scope, _shutdown and _exit, and the end of LocalServer.run_process.
\* The transport stays alive: the server reads every message written, answers
\* or not, and exits when it reads `exit`.

InitLife ==
    /\ clientPc = "start"
    /\ wire = <<>>
    /\ srvRead = 0
    /\ reply = "none"
    /\ debug \in BOOLEAN
    /\ initResult = "none"
    /\ nReq = 0
    /\ raised = "none"
    /\ proc = "running"
    /\ acceptedAt = {}
    /\ rejectedAt = {}
    /\ mainSent = 0

\* Server.request / Server.notify: the package is written to the server.
Send(method) == Append(wire, method)

\* Client.request raises: the server's answer is an error response, or
\* anyio.fail_after(request_timeout) expires before an answer.
RequestError ==
    IF reply = "error" THEN "ResponseError" ELSE "TimeoutError"

\* __asynccontextmanager__ calls _initialize: the initialize request is
\* written and the task waits for its response.
Initialize ==
    /\ clientPc = "start"
    /\ wire' = Send("initialize")
    /\ clientPc' = "initialize"
    /\ mainSent' = Len(wire) + 1
    /\ UNCHANGED <<nonLifeVars, reqVars, srvRead, reply, debug, initResult, nReq,
                   raised, proc>>

\* The initialize response arrives.  Under __debug__ the server capabilities
\* are checked, and a capability the client declares and the server lacks
\* raises AssertionError; otherwise _initialize writes `initialized` and the
\* body of the scope starts.  _initialize is called before the `try` of the
\* scope: its exception leaves the scope with no `finally` run.
InitializeReturns ==
    /\ clientPc = "initialize"
    /\ reply \in {"ok", "lacking"}
    /\ initResult' = reply
    /\ reply' = "none"
    /\ IF debug /\ reply = "lacking"
       THEN /\ raised' = "AssertionError"
            /\ clientPc' = "leaving"
            /\ UNCHANGED wire
       ELSE /\ wire' = Send("initialized")
            /\ clientPc' = "body"
            /\ UNCHANGED raised
    /\ UNCHANGED <<nonLifeVars, reqVars, mainSent, srvRead, debug, nReq, proc>>

\* The initialize request fails (error response or timeout), also before the
\* `try` of the scope.
InitializeFails ==
    /\ clientPc = "initialize"
    /\ reply \in {"none", "error"}
    /\ initResult' = RequestError
    /\ raised' = RequestError
    /\ reply' = "none"
    /\ clientPc' = "leaving"
    /\ UNCHANGED <<nonLifeVars, reqVars, mainSent, wire, srvRead, debug, nReq, proc>>

\* The body of the scope issues a request (Client.request).
UserRequest ==
    /\ clientPc = "body"
    /\ nReq < MaxRequests
    /\ nReq' = nReq + 1
    /\ wire' = Send("request")
    /\ clientPc' = "request"
    /\ mainSent' = Len(wire) + 1
    /\ UNCHANGED <<nonLifeVars, reqVars, srvRead, reply, debug, initResult, raised,
                   proc>>

\* Its response arrives and the body goes on.
UserRequestReturns ==
    /\ clientPc = "request"
    /\ reply = "ok"
    /\ reply' = "none"
    /\ clientPc' = "body"
    /\ UNCHANGED <<nonLifeVars, reqVars, mainSent, wire, srvRead, debug, initResult, nReq,
                   raised, proc>>

\* The request fails and the body lets the exception out: the `finally` of
\* the scope starts.
UserRequestFails ==
    /\ clientPc = "request"
    /\ reply \in {"none", "error"}
    /\ raised' = RequestError
    /\ reply' = "none"
    /\ clientPc' = "finally"
    /\ UNCHANGED <<nonLifeVars, reqVars, mainSent, wire, srvRead, debug, initResult, nReq,
                   proc>>

\* The body returns: the `finally` of the scope starts.
BodyReturns ==
    /\ clientPc = "body"
    /\ clientPc' = "finally"
    /\ UNCHANGED <<nonLifeVars, reqVars, mainSent, wire, srvRead, reply, debug, initResult,
                   nReq, raised, proc>>

\* The body raises an exception of its own.
BodyRaises ==
    /\ clientPc = "body"
    /\ raised' = "UserError"
    /\ clientPc' = "finally"
    /\ UNCHANGED <<nonLifeVars, reqVars, mainSent, wire, srvRead, reply, debug, initResult,
                   nReq, proc>>

\* `finally: _ = await self._shutdown()`: the shutdown request is written.
Shutdown ==
    /\ clientPc = "finally"
    /\ wire' = Send("shutdown")
    /\ clientPc' = "shutdown"
    /\ mainSent' = Len(wire) + 1
    /\ UNCHANGED <<nonLifeVars, reqVars, srvRead, reply, debug, initResult, nReq,
                   raised, proc>>

\* The shutdown response arrives: `await self._exit()` writes the exit
\* notification, and the scope is left (with the exception of the body, if
\* it raised one).
ShutdownReturns ==
    /\ clientPc = "shutdown"
    /\ reply = "ok"
    /\ reply' = "none"
    /\ wire' = Send("exit")
    /\ clientPc' = "leaving"
    /\ UNCHANGED <<nonLifeVars, reqVars, mainSent, srvRead, debug, initResult, nReq, raised,
                   proc>>

\* The shutdown request fails (error response or timeout): `_ = await
\* self._shutdown()` raises, the statement after it, `await self._exit()`, is
\* not reached, and the exception (which replaces the one of the body)
\* leaves the scope.
ShutdownFails ==
    /\ clientPc = "shutdown"
    /\ reply \in {"none", "error"}
    /\ raised' = RequestError
    /\ reply' = "none"
    /\ clientPc' = "leaving"
    /\ UNCHANGED <<nonLifeVars, reqVars, mainSent, wire, srvRead, debug, initResult, nReq,
                   proc>>

\* Client.request called by another task that holds the client, whatever the
\* scope is doing: no state is consulted, get_server().request writes the
\* request.  Only the transport refuses it: once the process is gone the
\* write raises and nothing is written.  (_server is set just before
\* _initialize is called, so such a request never precedes `initialize`.)
ConcurrentRequest ==
    /\ clientPc # "start"
    /\ nReq < MaxRequests
    /\ nReq' = nReq + 1
    /\ IF proc = "running" /\ clientPc # "left"
       THEN /\ wire' = Send("request")
            /\ acceptedAt' = acceptedAt \cup {clientPc}
            /\ UNCHANGED rejectedAt
       ELSE /\ rejectedAt' = rejectedAt \cup {clientPc}
            /\ UNCHANGED <<wire, acceptedAt>>
    /\ UNCHANGED <<nonLifeVars, mainSent, clientPc, srvRead, reply, debug,
                   initResult, raised, proc>>

\* The client's main task waits for the response to the request it wrote
\* last (the k-th message of the wire).
Awaited(k) ==
    /\ clientPc \in {"initialize", "request", "shutdown"}
    /\ k = mainSent

\* The server reads the next message.  A request that the client still waits
\* on is answered (with a result, with an error; to initialize also with
\* capabilities that lack one the client declares) or left unanswered; the
\* answer to a request the client has given up is dropped.  On `exit` the
\* process exits.
ServerRead(answer) ==
    /\ proc = "running"
    /\ srvRead < Len(wire)
    /\ srvRead' = srvRead + 1
    /\ LET method == wire[srvRead + 1] IN
       /\ answer = "lacking" => method = "initialize"
       /\ IF method \in {"initialize", "request", "shutdown"}
          THEN /\ reply' = IF Awaited(srvRead + 1) THEN answer ELSE reply
               /\ UNCHANGED proc
          ELSE /\ answer = "none"
               /\ proc' = IF method = "exit" THEN "exited" ELSE proc
               /\ UNCHANGED reply
    /\ UNCHANGED <<nonLifeVars, reqVars, mainSent, clientPc, wire, debug, initResult, nReq,
                   raised>>

\* LocalServer.run_process, `finally`: process.wait() returns within
\* shutdown_timeout because the process has exited.  (With no exception in
\* flight the scope of Server.run first waits for _dispatch, which ends when
\* the process closes its stdout.)
ProcessExited ==
    /\ clientPc = "leaving"
    /\ proc = "exited"
    /\ clientPc' = "left"
    /\ UNCHANGED <<nonLifeVars, reqVars, mainSent, wire, srvRead, reply, debug, initResult,
                   nReq, raised, proc>>

\* LocalServer.run_process, `finally`: an exception is leaving the scope
\* (_dispatch was cancelled), the process has not exited within
\* shutdown_timeout, and it is killed.
ProcessKilled ==
    /\ clientPc = "leaving"
    /\ proc = "running"
    /\ raised # "none"
    /\ proc' = "killed"
    /\ clientPc' = "left"
    /\ UNCHANGED <<nonLifeVars, reqVars, mainSent, wire, srvRead, reply, debug, initResult,
                   nReq, raised>>

NextLife ==
    \/ Initialize
    \/ InitializeReturns
    \/ InitializeFails
    \/ UserRequest
    \/ UserRequestReturns
    \/ UserRequestFails
    \/ BodyReturns
    \/ BodyRaises
    \/ Shutdown
    \/ ShutdownReturns
    \/ ShutdownFails
    \/ ConcurrentRequest
    \/ \E answer \in {"none", "ok", "lacking", "error"} : ServerRead(answer)
    \/ ProcessExited
    \/ ProcessKilled

\* ------------------------------------------------------------------ SpecStart
\* LSPCapabilityClientBase.start (capability/client.py) with its
\* _server_request_worker and the client's receiver queue (channel.py), for a
\* scope whose body returns straight away, against a server that answers
\* initialize with satisfying capabilities and answers shutdown, and that may
\* send notifications and requests of its own during the session.

\* The messages a server sends on its own: a notification or a request that
\* the client class handles, or one that it does not.
InboundKinds ==
    {"notification", "request", "unknown notification", "unknown request"}

InitStart ==
    /\ startPc = "new"
    /\ inbox = <<>>
    /\ unfinished = 0
    /\ dispatching = <<>>
    /\ workerUp = FALSE
    /\ nInbound = 0
    /\ replied = 0
    /\ posted = <<>>

\* The sequence q without its k-th element.
Remove(q, k) == SubSeq(q, 1, k - 1) \o SubSeq(q, k + 1, Len(q))

\* start: instance.initialize sends the initialize request (_request_many).
StartInitialize ==
    /\ startPc = "new"
    /\ posted' = Append(posted, "initialize")
    /\ startPc' = "initialize"
    /\ UNCHANGED <<nonStartVars, inbox, unfinished, dispatching, workerUp,
                   nInbound, replied>>

\* The initialize responses arrive with satisfying capabilities: initialize
\* sends `initialized`, start creates the _server_request_worker task and
\* yields; the body returns straight away and the `finally` sends the
\* shutdown request.
StartShutdown ==
    /\ startPc = "initialize"
    /\ posted' = posted \o <<"initialized", "shutdown">>
    /\ workerUp' = TRUE
    /\ startPc' = "shutdown"
    /\ UNCHANGED <<nonStartVars, inbox, unfinished, dispatching, nInbound,
                   replied>>

\* The shutdown responses arrive: start goes on to `await receiver.join()`.
ShutdownAnswered ==
    /\ startPc = "shutdown"
    /\ startPc' = "join"
    /\ UNCHANGED <<nonStartVars, inbox, unfinished, dispatching, workerUp,
                   nInbound, replied, posted>>

\* Receiver.join, that is asyncio.Queue.join: it returns once the count of
\* unfinished tasks is zero.  start then cancels the worker task; the task
\* group ends (its dispatch tasks are over or cancelled with the worker).
Join ==
    /\ startPc = "join"
    /\ unfinished = 0
    /\ workerUp' = FALSE
    /\ dispatching' = <<>>
    /\ startPc' = "exit"
    /\ UNCHANGED <<nonStartVars, inbox, unfinished, nInbound, replied, posted>>

\* After the task group: instance.exit() sends the exit notification and
\* the instance is closed.
StartExit ==
    /\ startPc = "exit"
    /\ posted' = Append(posted, "exit")
    /\ startPc' = "closed"
    /\ UNCHANGED <<nonStartVars, inbox, unfinished, dispatching, workerUp,
                   nInbound, replied>>

\* The server sends a message of its own; the server side puts it on the
\* client's receiver queue (Sender.send, asyncio.Queue.put: one more
\* unfinished task).
ServerSends(kind) ==
    /\ startPc \in {"initialize", "shutdown", "join"}
    /\ nInbound < MaxInbound
    /\ nInbound' = nInbound + 1
    /\ inbox' = Append(inbox, kind)
    /\ unfinished' = unfinished + 1
    /\ UNCHANGED <<nonStartVars, startPc, dispatching, workerUp, replied, posted>>

\* _server_request_worker: `while req := await receiver.receive()` gets the
\* next message (Receiver.receive, asyncio.Queue.get) and creates a dispatch
\* task for it.
WorkerReceive ==
    /\ workerUp
    /\ inbox # <<>>
    /\ dispatching' = Append(dispatching, Head(inbox))
    /\ inbox' = Tail(inbox)
    /\ UNCHANGED <<nonStartVars, startPc, unfinished, workerUp, nInbound,
                   replied, posted>>

\* One dispatch(req) task runs: a handled notification goes to its receive_*
\* method, a handled request is answered through tx.send, anything else is
\* logged as unknown.  No branch calls Receiver.task_done (and the worker
\* does not get its messages through Receiver.handle): the count of
\* unfinished tasks of the queue stays as it is.
Dispatch(k) ==
    /\ k \in 1..Len(dispatching)
    /\ replied' = IF dispatching[k] = "request" THEN replied + 1 ELSE replied
    /\ dispatching' = Remove(dispatching, k)
    /\ UNCHANGED <<nonStartVars, startPc, inbox, unfinished, workerUp, nInbound,
                   posted>>

NextStart ==
    \/ StartInitialize
    \/ StartShutdown
    \/ ShutdownAnswered
    \/ Join
    \/ StartExit
    \/ \E kind \in InboundKinds : ServerSends(kind)
    \/ WorkerReceive
    \/ \E k \in 1..MaxInbound : Dispatch(k)

\* ------------------------------------------------------------------ SpecRun
\* Client._run_server over Client._iter_candidate_servers, Server.run and
\* LocalServer.run_process: the choice of the server, its process, and what
\* the caller of the client scope gets.
\*
\* An exception is the sequence of its class names from the outermost
\* exception group to the leaf: <<"ExceptionGroup", "ValueError">> is a group
\* holding one ValueError.  NoExc is "no exception".
NoExc == <<>>

ServerRuntimeErrorExc == <<"ServerRuntimeError">>

\* The classes e is an instance of, by its outermost class
\* (ServerRuntimeError derives from RuntimeError, TimeoutError from OSError).
Bases(e) ==
    IF e = NoExc THEN {}
    ELSE IF Head(e) = "ServerRuntimeError" THEN {"ServerRuntimeError", "RuntimeError"}
    ELSE IF Head(e) = "TimeoutError" THEN {"TimeoutError", "OSError"}
    ELSE {Head(e)}

IsInstance(e, classes) == Bases(e) \cap classes # {}

\* What the body of the client scope (the handshake, the code of the
\* application, shutdown and exit) may raise.
BodyExceptions == {"ValueError", "RuntimeError", "OSError", "ServerRuntimeError",
                   "CancelledError"}

\* A task group is left with exception e raised by its body: it cancels its
\* tasks and raises a group that holds e; a cancellation passes as it is.
TaskGroupExit(e) ==
    IF e = NoExc \/ Head(e) = "CancelledError" THEN e
    ELSE <<"ExceptionGroup">> \o e

\* The generator is resumed at pc: the candidate it yields next ("none" when
\* it ends) and where it stops.  probe is the outcome of
\* defaults.local.check_availability().
iter_candidate_servers(at, arg, probe) ==
    IF at = "arg" /\ arg # "none" THEN [yield |-> arg, pc |-> "probe"]
    ELSE IF at \in {"arg", "probe"}
    THEN IF probe THEN [yield |-> "local", pc |-> "container"]
         ELSE [yield |-> "container", pc |-> "local"]
    ELSE IF at = "container" THEN [yield |-> "container", pc |-> "local"]
    ELSE IF at = "local" THEN [yield |-> "local", pc |-> "end"]
    ELSE [yield |-> "none", pc |-> "end"]

\* `except (OSError, RuntimeError)` around open_process and the yield.
run_process_except(e) ==
    IF IsInstance(e, {"OSError", "RuntimeError"}) THEN ServerRuntimeErrorExc ELSE e

\* The finally clause of run_process when the process was not spawned:
\* `self._process.wait()` on the process p of the server object.
run_process_finally(e, p) ==
    IF p = "unset" THEN <<"AttributeError">> ELSE e

\* run_process up to its yield: the exception it raises (NoExc: the process
\* runs).  onPath: shutil.which finds the program; disabled:
\* disable_auto_installation(); hasHook: ensure_installed is given; hook and
\* spawn: "ok" or the class of what ensure_installed / open_process raise.
run_process_enter(onPath, disabled, hasHook, hook, spawn, p) ==
    IF ~onPath /\ disabled THEN ServerRuntimeErrorExc
    ELSE IF ~onPath /\ ~hasHook THEN ServerRuntimeErrorExc
    ELSE IF ~onPath /\ hook # "ok" THEN run_process_except(<<hook>>)
    ELSE IF spawn = "ok" THEN NoExc
    ELSE run_process_finally(run_process_except(<<spawn>>), p)

InitRun ==
    /\ serverArg \in {"none", "server", "local", "container"}
    /\ iterPc = "arg"
    /\ candidate = "none"
    /\ attempted = <<>>
    /\ errors = <<>>
    /\ runPc = "idle"
    /\ srvProcess = "unset"
    /\ inflight = NoExc
    /\ scopePc = "entering"
    /\ bodyExc = NoExc
    /\ runServerExc = NoExc
    /\ callerExc = NoExc
    /\ entryExc = NoExc
    /\ usedAt = 0
    /\ dispatchTask = "none"
    /\ stderrFill = 0
    /\ srvBlocked = FALSE
    /\ asked = 0
    /\ answered = 0

\* `async for candidate in self._iter_candidate_servers()`: the next
\* candidate, or the end of the loop and `raise ExceptionGroup(..., errors)`.
IterNext(probe) ==
    /\ scopePc = "entering"
    /\ runPc = "idle"
    /\ LET r == iter_candidate_servers(iterPc, serverArg, probe) IN
       /\ iterPc' = r.pc
       /\ IF r.yield # "none"
          THEN /\ candidate' = r.yield
               /\ attempted' = Append(attempted, r.yield)
               /\ runPc' = "enter"
               /\ UNCHANGED <<scopePc, runServerExc, callerExc>>
          ELSE /\ runServerExc' = <<"AllServersFailed">>
               /\ callerExc' = TaskGroupExit(<<"AllServersFailed">>)
               /\ scopePc' = "raised"
               /\ UNCHANGED <<candidate, attempted, runPc>>
    /\ UNCHANGED <<nonRunVars, serverArg, errors, srvProcess, inflight, bodyExc,
                   entryExc, usedAt, dispatchTask, stderrVars>>

\* `async with candidate.run(...)` is entered: run_process up to its yield,
\* then the task group of Server.run with the _dispatch task, and the yield
\* of _run_server; or the exception of run_process, which _run_server keeps
\* when it is a ServerRuntimeError and lets through otherwise.
RunEnter(onPath, disabled, hasHook, hook, spawn) ==
    /\ runPc = "enter"
    /\ LET e == run_process_enter(onPath, disabled, hasHook, hook, spawn, srvProcess) IN
       /\ entryExc' = e
       /\ IF e = NoExc
          THEN /\ srvProcess' = "alive"
               /\ dispatchTask' = "running"
               /\ runPc' = "yielded"
               /\ IF usedAt = 0
                  THEN /\ usedAt' = Len(attempted)
                       /\ scopePc' = "body"
                       /\ UNCHANGED <<runServerExc, callerExc>>
                  ELSE \* the generator yields a second time
                       /\ runServerExc' = <<"RuntimeError">>
                       /\ callerExc' = TaskGroupExit(<<"RuntimeError">>)
                       /\ scopePc' = "raised"
                       /\ UNCHANGED usedAt
               /\ UNCHANGED <<errors, candidate>>
          ELSE IF IsInstance(e, {"ServerRuntimeError"})
          THEN /\ errors' = Append(errors, candidate)
               /\ candidate' = "none"
               /\ runPc' = "idle"
               /\ UNCHANGED <<srvProcess, dispatchTask, usedAt, scopePc,
                              runServerExc, callerExc>>
          ELSE /\ runServerExc' = e
               /\ callerExc' = TaskGroupExit(e)
               /\ scopePc' = "raised"
               /\ runPc' = "idle"
               /\ UNCHANGED <<srvProcess, dispatchTask, usedAt, errors, candidate>>
    /\ UNCHANGED <<nonRunVars, serverArg, iterPc, attempted, inflight, bodyExc,
                   stderrVars>>

\* The body of the client scope sends a request to the server.
BodyAsks ==
    /\ scopePc = "body"
    /\ asked < MaxAsked
    /\ asked' = asked + 1
    /\ UNCHANGED <<nonRunVars, serverArg, iterPc, candidate, attempted, errors,
                   runPc, srvProcess, inflight, scopePc, bodyExc, runServerExc,
                   callerExc, entryExc, usedAt, dispatchTask, stderrFill,
                   srvBlocked, answered>>

\* The body of the client scope (handshake, code of the application,
\* shutdown, exit) ends: it returns or raises e.
BodyEnds(e) ==
    /\ scopePc = "body"
    /\ scopePc' = "exiting"
    /\ bodyExc' = e
    /\ inflight' = e
    /\ UNCHANGED <<nonRunVars, serverArg, iterPc, candidate, attempted, errors,
                   runPc, srvProcess, runServerExc, callerExc, entryExc, usedAt,
                   dispatchTask, stderrVars>>

\* The server process writes a line of log to its stderr: the pipe takes it,
\* or, the pipe being full, the write blocks the process.  Nothing in the
\* client reads LocalServer.stderr.
ServerLogs ==
    /\ srvProcess = "alive"
    /\ ~srvBlocked
    /\ IF stderrFill < PipeCapacity
       THEN stderrFill' = stderrFill + 1 /\ UNCHANGED srvBlocked
       ELSE srvBlocked' = TRUE /\ UNCHANGED stderrFill
    /\ UNCHANGED <<nonRunVars, serverArg, iterPc, candidate, attempted, errors,
                   runPc, srvProcess, inflight, scopePc, bodyExc, runServerExc,
                   callerExc, entryExc, usedAt, dispatchTask, asked, answered>>

\* The server process answers a request.
ServerAnswers ==
    /\ srvProcess = "alive"
    /\ ~srvBlocked
    /\ answered < asked
    /\ answered' = answered + 1
    /\ UNCHANGED <<nonRunVars, serverArg, iterPc, candidate, attempted, errors,
                   runPc, srvProcess, inflight, scopePc, bodyExc, runServerExc,
                   callerExc, entryExc, usedAt, dispatchTask, stderrFill,
                   srvBlocked, asked>>

\* The server process terminates on its own (on exit, or by crashing): its
\* stdout is at end-of-stream.
ServerExits ==
    /\ srvProcess = "alive"
    /\ ~srvBlocked
    /\ srvProcess' = "exited"
    /\ UNCHANGED <<nonRunVars, serverArg, iterPc, candidate, attempted, errors,
                   runPc, inflight, scopePc, bodyExc, runServerExc, callerExc,
                   entryExc, usedAt, dispatchTask, stderrVars>>

\* Server._dispatch: receive() returns None at end-of-stream, the loop and
\* the task end.
DispatchEof ==
    /\ dispatchTask = "running"
    /\ srvProcess # "alive"
    /\ dispatchTask' = "done"
    /\ UNCHANGED <<nonRunVars, serverArg, iterPc, candidate, attempted, errors,
                   runPc, srvProcess, inflight, scopePc, bodyExc, runServerExc,
                   callerExc, entryExc, usedAt, stderrVars>>

\* Server.run is left: its task group is exited.  With an exception the
\* _dispatch task is cancelled and the exception leaves in a group; without
\* one the task group waits until the _dispatch task has ended.
ServerRunExit ==
    /\ scopePc = "exiting"
    /\ runPc = "yielded"
    /\ IF inflight # NoExc
       THEN dispatchTask' = IF dispatchTask = "running" THEN "cancelled" ELSE dispatchTask
       ELSE dispatchTask = "done" /\ UNCHANGED dispatchTask
    /\ inflight' = TaskGroupExit(inflight)
    /\ runPc' = "thrown"
    /\ UNCHANGED <<nonRunVars, serverArg, iterPc, candidate, attempted, errors,
                   srvProcess, scopePc, bodyExc, runServerExc, callerExc,
                   entryExc, usedAt, stderrVars>>

\* run_process is resumed at its yield: the except clause, then the finally
\* clause up to `await self._process.wait()` under fail_after.
RunProcessFinally ==
    /\ runPc = "thrown"
    /\ inflight' = run_process_except(inflight)
    /\ runPc' = "waiting"
    /\ UNCHANGED <<nonRunVars, serverArg, iterPc, candidate, attempted, errors,
                   srvProcess, scopePc, bodyExc, runServerExc, callerExc,
                   entryExc, usedAt, dispatchTask, stderrVars>>

\* What _run_server does with the exception e that leaves candidate.run.
RunServerLeft(e) ==
    IF e = NoExc
    THEN /\ scopePc' = "returned"
         /\ UNCHANGED <<errors, candidate, runServerExc, callerExc>>
    ELSE IF IsInstance(e, {"ServerRuntimeError"})
    THEN /\ errors' = Append(errors, candidate)
         /\ candidate' = "none"
         /\ scopePc' = "entering"
         /\ UNCHANGED <<runServerExc, callerExc>>
    ELSE /\ runServerExc' = e
         /\ callerExc' = TaskGroupExit(e)
         /\ scopePc' = "raised"
         /\ UNCHANGED <<errors, candidate>>

\* The process has terminated: wait() returns and run_process is left.
WaitReturns ==
    /\ runPc = "waiting"
    /\ srvProcess # "alive"
    /\ runPc' = "idle"
    /\ RunServerLeft(inflight)
    /\ UNCHANGED <<nonRunVars, serverArg, iterPc, attempted, srvProcess,
                   inflight, bodyExc, entryExc, usedAt, dispatchTask, stderrVars>>

\* shutdown_timeout has passed with the process alive: TimeoutError, kill().
WaitTimesOut ==
    /\ runPc = "waiting"
    /\ srvProcess = "alive"
    /\ srvProcess' = "killed"
    /\ runPc' = "idle"
    /\ RunServerLeft(inflight)
    /\ UNCHANGED <<nonRunVars, serverArg, iterPc, attempted, inflight, bodyExc,
                   entryExc, usedAt, dispatchTask, stderrVars>>

\* The steps of the client; the server terminates, logs and answers as it
\* likes.
ClientSteps ==
    \/ \E probe \in BOOLEAN : IterNext(probe)
    \/ \E onPath, disabled, hasHook \in BOOLEAN :
         \E hook, spawn \in {"ok", "OSError", "RuntimeError"} :
            RunEnter(onPath, disabled, hasHook, hook, spawn)
    \/ DispatchEof
    \/ ServerRunExit
    \/ RunProcessFinally
    \/ WaitReturns
    \/ WaitTimesOut

NextRun ==
    \/ ClientSteps
    \/ BodyAsks
    \/ \E e \in {NoExc} \cup {<<c>> : c \in BodyExceptions} : BodyEnds(e)
    \/ ServerLogs
    \/ ServerAnswers
    \/ ServerExits

\* ------------------------------------------------------------------ SpecPool
\* StdioServer with process_count replicas: request, request_all, notify and
\* _process_worker over the ShotTable of utils/channel.py (wait, wait_many,
\* send).  The id of a request is the index of its call in poolOps.
Replicas == 1..NumReplicas

PoolKinds == {"request", "request_all", "notify"}

InitPool ==
    /\ poolOps = <<>>
    /\ poolWritten = [r \in Replicas |-> <<>>]
    /\ poolPending = [i \in 1..MaxPoolOps |-> "none"]
    /\ poolGot = [i \in 1..MaxPoolOps |-> 0]
    /\ poolOut = [r \in Replicas |-> <<>>]
    /\ poolAnswered = [r \in Replicas |-> 0]
    /\ poolWorkers = "running"

\* process.send(package) on the process r.
process_send(w, r, package) == [w EXCEPT ![r] = Append(@, package)]

\* Mutant of gather_all_send: the package goes to one process only.
gather_all_send_first(w, package) == process_send(w, 1, package)

\* gather_all(process.send(package) for process in self.runtime.processes).
gather_all_send(w, package) == [r \in Replicas |-> Append(w[r], package)]

\* The number of items a sender of the given kind expects before its event
\* is set (DataEvent: one; ManyDataEvent: expect_count).
expect_count(kind) == IF kind = "many" THEN NumReplicas ELSE 1

\* A call of kind k starts: a request is written to the process chosen by
\* next_server (random.choice), a request_all and a notification to every
\* process.  A notification is complete with that; a request goes on to
\* wait / wait_many.
PoolCall(k, r) ==
    /\ poolWorkers = "running"
    /\ Len(poolOps) < MaxPoolOps
    /\ LET i == Len(poolOps) + 1 IN
       /\ poolOps' = Append(poolOps, [kind |-> k,
                                      pc |-> IF k = "notify" THEN "done" ELSE "sent"])
       /\ poolWritten' = IF k = "request"
                         THEN process_send(poolWritten, r, <<k, i>>)
                         ELSE gather_all_send(poolWritten, <<k, i>>)
    /\ UNCHANGED <<nonPoolVars, poolPending, poolGot, poolOut, poolAnswered,
                   poolWorkers>>

\* ShotTable.wait / wait_many up to rx.receive(): the sender is registered.
PoolRegister(i) ==
    /\ i \in 1..Len(poolOps)
    /\ poolOps[i].pc = "sent"
    /\ poolPending' = [poolPending EXCEPT
                         ![i] = IF poolOps[i].kind = "request" THEN "one" ELSE "many"]
    /\ poolOps' = [poolOps EXCEPT ![i].pc = "waiting"]
    /\ UNCHANGED <<nonPoolVars, poolWritten, poolGot, poolOut, poolAnswered,
                   poolWorkers>>

\* The process r answers the next request it has read from its stdin
\* (notifications are read and not answered).
ReplicaAnswers(r) ==
    /\ poolAnswered[r] < Len(poolWritten[r])
    /\ LET package == poolWritten[r][poolAnswered[r] + 1] IN
       poolOut' = IF package[1] = "notify" THEN poolOut
                  ELSE [poolOut EXCEPT ![r] = Append(@, package[2])]
    /\ poolAnswered' = [poolAnswered EXCEPT ![r] = @ + 1]
    /\ UNCHANGED <<nonPoolVars, poolOps, poolWritten, poolPending, poolGot,
                   poolWorkers>>

\* ShotTable.send(id, data) of utils/channel.py: <<_pending', data count',
\* raised>>.  An id that is not pending raises ValueError, a sender whose
\* event is set raises RuntimeError; otherwise the data is added to the
\* event and the entry is popped.
ShotTable_send_pool(pend, got, i) ==
    IF pend[i] = "none" THEN <<pend, got, TRUE>>
    ELSE IF got[i] >= expect_count(pend[i]) THEN <<pend, got, TRUE>>
    ELSE <<[pend EXCEPT ![i] = "none"], [got EXCEPT ![i] = @ + 1], FALSE>>

\* _process_worker of the process r handles a response.  An exception of
\* handle ends the task group of the worker and, through the task group of
\* run, every other task of the server scope: the calls that wait are
\* cancelled and their finally clause pops their entry.
PoolHandle(r) ==
    /\ poolWorkers = "running"
    /\ poolOut[r] # <<>>
    /\ LET sent == ShotTable_send_pool(poolPending, poolGot, Head(poolOut[r])) IN
       IF sent[3]
       THEN /\ poolWorkers' = "failed"
            /\ poolOps' = [i \in 1..Len(poolOps) |->
                             IF poolOps[i].pc \in {"sent", "waiting"}
                             THEN [poolOps[i] EXCEPT !.pc = "failed"]
                             ELSE poolOps[i]]
            /\ poolPending' = [i \in 1..MaxPoolOps |-> "none"]
            /\ UNCHANGED poolGot
       ELSE /\ poolPending' = sent[1]
            /\ poolGot' = sent[2]
            /\ UNCHANGED <<poolWorkers, poolOps>>
    /\ poolOut' = [poolOut EXCEPT ![r] = Tail(@)]
    /\ UNCHANGED <<nonPoolVars, poolWritten, poolAnswered>>

\* rx.receive() returns: the event of the call is set; the finally clause of
\* wait / wait_many pops the entry.
PoolReturn(i) ==
    /\ i \in 1..Len(poolOps)
    /\ poolOps[i].pc = "waiting"
    /\ poolGot[i] >= expect_count(IF poolOps[i].kind = "request" THEN "one" ELSE "many")
    /\ poolOps' = [poolOps EXCEPT ![i].pc = "done"]
    /\ poolPending' = [poolPending EXCEPT ![i] = "none"]
    /\ UNCHANGED <<nonPoolVars, poolWritten, poolGot, poolOut, poolAnswered,
                   poolWorkers>>

NextPool ==
    \/ \E k \in PoolKinds, r \in Replicas : PoolCall(k, r)
    \/ \E i \in 1..MaxPoolOps : PoolRegister(i)
    \/ \E r \in Replicas : ReplicaAnswers(r)
    \/ \E r \in Replicas : PoolHandle(r)
    \/ \E i \in 1..MaxPoolOps : PoolReturn(i)

\* ------------------------------------------------------------------ SpecInbound
\* What the servers send of their own: Server._dispatch / StdioServer.
\* _process_worker (handle) on the side of the server object,
\* Client._dispatch_server_requests (dispatch) on the side of the client.
\* The id of an inbound package is its index in inb; the packages of one
\* process are in inb in the order in which the process wrote them.
InitInbound ==
    /\ inb = <<>>
    /\ chan = <<>>
    /\ delivered = <<>>
    /\ srvReplies = <<>>

\* The server process r writes a request or a notification; hooked tells
\* whether the client has a hook registered for its method.
ServerWrites(kind, hooked, r) ==
    /\ Len(inb) < MaxFromServer
    /\ inb' = Append(inb, [kind |-> kind, hooked |-> hooked, from |-> r,
                           pc |-> "written"])
    /\ UNCHANGED <<nonInboundVars, chan, delivered, srvReplies>>

\* The read loop of the process reads its next package and creates the task
\* handle(package).
DispatchRead(i) ==
    /\ i \in 1..Len(inb)
    /\ inb[i].pc = "written"
    /\ \A j \in 1..(i - 1) : inb[j].from = inb[i].from => inb[j].pc # "written"
    /\ inb' = [inb EXCEPT ![i].pc = "spawned"]
    /\ UNCHANGED <<nonInboundVars, chan, delivered, srvReplies>>

\* The task handle(package) runs: a request is sent to the client with the
\* sender tx of a new response channel and handle waits in rx.receive(); a
\* notification is sent as it is.
DispatchHandle(i) ==
    /\ i \in 1..Len(inb)
    /\ inb[i].pc = "spawned"
    /\ chan' = Append(chan, i)
    /\ inb' = [inb EXCEPT ![i].pc = "queued"]
    /\ UNCHANGED <<nonInboundVars, delivered, srvReplies>>

\* `async for req in receiver`: the next item of the channel is received and
\* the task dispatch(req) is created.
ClientReceive ==
    /\ chan # <<>>
    /\ chan' = Tail(chan)
    /\ inb' = [inb EXCEPT ![Head(chan)].pc = "received"]
    /\ UNCHANGED <<nonInboundVars, delivered, srvReplies>>

\* Where dispatch(req) of the client leaves the package: the hook of a
\* request ran and tx.send was called ("responded"); a request without hook
\* falls through the `if` and nothing is sent on tx ("unanswered"); a
\* notification with hooks has a task created for each hook ("hooking"),
\* one without is dropped ("done").
dispatch(package) ==
    IF package.kind = "request"
    THEN IF package.hooked THEN "responded" ELSE "unanswered"
    ELSE IF package.hooked THEN "hooking" ELSE "done"

\* The task dispatch(req) runs.
ClientDispatch(i) ==
    /\ i \in 1..Len(inb)
    /\ inb[i].pc = "received"
    /\ inb' = [inb EXCEPT ![i].pc = dispatch(inb[i])]
    /\ UNCHANGED <<nonInboundVars, chan, delivered, srvReplies>>

\* The task of hook.execute(noti) runs: the handler has the notification.
HookRuns(i) ==
    /\ i \in 1..Len(inb)
    /\ inb[i].pc = "hooking"
    /\ delivered' = Append(delivered, i)
    /\ inb' = [inb EXCEPT ![i].pc = "done"]
    /\ UNCHANGED <<nonInboundVars, chan, srvReplies>>

\* Mutant of reply_process: the response goes to the first process.
reply_process_first(r) == 1

\* The process handle writes the response to: the process whose worker
\* created the task (`process.send(resp)`, `self.send(resp)`).
reply_process(r) == r

\* handle: rx.receive() returns the response of the hook, which bears the id
\* of the request, and it is written to the server.
HandleSends(i) ==
    /\ i \in 1..Len(inb)
    /\ inb[i].pc = "responded"
    /\ inb' = [inb EXCEPT ![i].pc = "done"]
    /\ srvReplies' = Append(srvReplies, [id |-> i, to |-> reply_process(inb[i].from),
                                         body |-> "result"])
    /\ UNCHANGED <<nonInboundVars, chan, delivered>>

InboundSteps ==
    \/ \E i \in 1..MaxFromServer : DispatchRead(i)
    \/ \E i \in 1..MaxFromServer : DispatchHandle(i)
    \/ ClientReceive
    \/ \E i \in 1..MaxFromServer : ClientDispatch(i)
    \/ \E i \in 1..MaxFromServer : HookRuns(i)
    \/ \E i \in 1..MaxFromServer : HandleSends(i)

NextInbound ==
    \/ \E kind \in {"request", "notification"}, hooked \in BOOLEAN, r \in Replicas :
          ServerWrites(kind, hooked, r)
    \/ InboundSteps

\* ------------------------------------------------------------------ SpecCaps
\* attrs_merge / attrs_merges (utils/attrs.py) and
\* LSPClientBase.client_capabilities (client/base.py).
\*
\* A document as it is declared is a tree: None, an atom (a bool, a string,
\* a list: anything that is not an attrs instance) or an attrs instance of
\* some class, whose fields x and y hold trees.  At run time the instances
\* are objects of the heap, and a field holds None, an atom or a reference.
PyNone == [tag |-> "None"]
Atom(n) == [tag |-> "atom", atom |-> n]
Instance(type, x, y) == [tag |-> "attrs", type |-> type, f |-> [x |-> x, y |-> y]]
Ref(a) == [tag |-> "ref", a |-> a]

Fields == {"x", "y"}
Leaves == {PyNone} \cup {Atom(n) : n \in 1..NumAtoms}
\* The options of a feature, of two classes.
Options == {Instance(type, x, y) : type \in {"S", "T"}, x \in Leaves, y \in Leaves}
\* ClientCapabilities documents.
Documents == {Instance("ClientCapabilities", x, y) : x \in Leaves \cup Options, y \in Leaves}
Trees == Leaves \cup Options \cup Documents

InitCaps ==
    /\ heap = <<>>
    /\ fragments = <<>>
    /\ docs = <<>>
    /\ merged = [done |-> FALSE]

\* The constructor call of a declaration: the instances of the tree are
\* made, the inner ones first.  Yields the new heap and the value.
RECURSIVE construct(_, _)
construct(h, tree) ==
    IF tree.tag # "attrs" THEN [h |-> h, v |-> tree]
    ELSE LET cx == construct(h, tree.f.x)
             cy == construct(cx.h, tree.f.y)
         IN  [h |-> Append(cy.h, [type |-> tree.type, f |-> [x |-> cx.v, y |-> cy.v]]),
              v |-> Ref(Len(cy.h) + 1)]

\* The tree a value stands for in the heap h.
RECURSIVE Deref(_, _)
Deref(h, v) ==
    IF v.tag # "ref" THEN v
    ELSE Instance(h[v.a].type, Deref(h, h[v.a].f.x), Deref(h, h[v.a].f.y))

\* Mutant of can_merge_attrs: no two values are merged.
can_merge_attrs_never(h, a, b) == FALSE

\* can_merge_attrs: both are attrs instances, of the same class.
can_merge_attrs(h, a, b) ==
    /\ a.tag = "ref"
    /\ b.tag = "ref"
    /\ h[a.a].type = h[b.a].type

\* Mutant of evolve: the changes are written into the instance itself.
evolve_in_place(h, inst, changes) ==
    [h |-> [h EXCEPT ![inst.a].f = changes], v |-> inst]

\* attrs.evolve(inst, **changes): a new instance of the class of inst with
\* the changed fields; inst is left as it is.
evolve(h, inst, changes) ==
    [h |-> Append(h, [type |-> h[inst.a].type, f |-> changes]), v |-> Ref(Len(h) + 1)]

\* attrs_merge(base, update).  Yields the new heap and the merged value.
RECURSIVE attrs_merge(_, _, _)
attrs_merge(h, base, update) ==
    IF base = PyNone /\ update = PyNone THEN [h |-> h, v |-> PyNone]
    ELSE IF update = PyNone THEN [h |-> h, v |-> base]
    ELSE IF base = PyNone THEN [h |-> h, v |-> update]
    ELSE IF can_merge_attrs(h, base, update)
    THEN LET mx == attrs_merge(h, h[base.a].f.x, h[update.a].f.x)
             my == attrs_merge(mx.h, mx.h[base.a].f.y, mx.h[update.a].f.y)
         IN  evolve(my.h, base, [x |-> mx.v, y |-> my.v])
    ELSE [h |-> h, v |-> update]

\* attrs_merges(*args): reduce(attrs_merge, args), args not empty.
RECURSIVE attrs_merges(_, _)
attrs_merges(h, args) ==
    IF Len(args) = 1 THEN [h |-> h, v |-> args[1]]
    ELSE LET front == attrs_merges(h, SubSeq(args, 1, Len(args) - 1))
         IN  attrs_merge(front.h, front.v, args[Len(args)])

\* client_capabilities() of a class whose two capability mix-ins declare the
\* documents mergeArgs[1] and mergeArgs[2]: each client_capability() builds
\* its document anew, and the documents are merged in the order of the mro.
client_capabilities ==
    /\ Len(docs) < MaxComputations
    /\ mergeArgs[1] \in Documents
    /\ mergeArgs[2] \in Documents
    /\ LET c1 == construct(heap, mergeArgs[1])
           c2 == construct(c1.h, mergeArgs[2])
           out == attrs_merges(c2.h, <<c1.v, c2.v>>)
       IN  /\ heap' = out.h
           /\ fragments' = Append(fragments, <<c1.v, c2.v>>)
           /\ docs' = Append(docs, out.v)
    /\ UNCHANGED <<nonCapsVars, mergeArgs, merged>>

\* A call attrs_merge(base, update) on two values the caller has built.
AttrsMerge ==
    /\ ~merged.done
    /\ LET c1 == construct(heap, mergeArgs[1])
           c2 == construct(c1.h, mergeArgs[2])
           out == attrs_merge(c2.h, c1.v, c2.v)
       IN  /\ heap' = out.h
           /\ merged' = [done |-> TRUE, base |-> c1.v, update |-> c2.v, out |-> out.v]
    /\ UNCHANGED <<nonCapsVars, mergeArgs, fragments, docs>>

NextCaps ==
    \/ client_capabilities
    \/ AttrsMerge

\* ------------------------------------------------------------------ SpecUri
\* The workspace given to LSPClientBase.start and as_uri (client/base.py).
\* A path is its sequence of parts and whether it is absolute.
ROOT_FOLDER_NAME == "__root__"
FolderNames == {"src", "lib"}
FolderPaths == {<<"path", "to", "src">>, <<"w">>}
PartNames == FolderNames \cup {"main.py"}

RelPaths == UNION {[1..n -> PartNames] : n \in 1..MaxParts}
\* The paths given to as_uri: relative ones, and a file under some folder
\* or under none.
FilePaths ==
    {[abs |-> FALSE, parts |-> p] : p \in RelPaths}
        \cup {[abs |-> TRUE, parts |-> d \o <<"main.py">>] : d \in FolderPaths \cup {<<"tmp">>}}

\* The workspace argument: one path, or a mapping of folder names to paths.
Mappings == UNION {[D -> FolderPaths] : D \in (SUBSET FolderNames) \ {{}}}
RawWorkspaces ==
    {[kind |-> "path", path |-> p] : p \in FolderPaths}
        \cup {[kind |-> "mapping", map |-> m] : m \in Mappings}

\* Path.as_uri of an absolute path, and back (AbsPath.from_uri,
\* from_local_uri).
path_as_uri(parts) == [scheme |-> "file", path |-> parts]
from_uri(u) == u.path

\* start: the workspace as the client keeps it, a mapping of the folder
\* names to WorkspaceFolder(uri, name).
format_workspace(raw) ==
    IF raw.kind = "path"
    THEN [n \in {ROOT_FOLDER_NAME} |-> [uri |-> path_as_uri(raw.path), name |-> n]]
    ELSE [n \in DOMAIN raw.map |-> [uri |-> path_as_uri(raw.map[n]), name |-> n]]

\* WorkspaceFolder.path
folder_path(folder) == from_uri(folder.uri)

\* Path.is_relative_to
is_relative_to(parts, other) ==
    Len(other) <= Len(parts) /\ SubSeq(parts, 1, Len(other)) = other

\* as_uri(file_path) with the workspace ws.  Yields the uri or the exception.
as_uri(ws, file_path) ==
    IF file_path.abs
    THEN IF ~\E n \in DOMAIN ws : is_relative_to(file_path.parts, folder_path(ws[n]))
         THEN [exc |-> "ValueError"]
         ELSE [exc |-> "none", uri |-> path_as_uri(file_path.parts)]
    ELSE IF Cardinality(DOMAIN ws) = 1
    THEN IF ROOT_FOLDER_NAME \notin DOMAIN ws
         THEN [exc |-> "KeyError"]
         ELSE [exc |-> "none",
               uri |-> path_as_uri(folder_path(ws[ROOT_FOLDER_NAME]) \o file_path.parts)]
    ELSE LET root == file_path.parts[1] IN
         IF root \notin DOMAIN ws
         THEN [exc |-> "ValueError"]
         ELSE [exc |-> "none", uri |-> path_as_uri(folder_path(ws[root]) \o file_path.parts)]

InitUri == uriOut = [exc |-> "unset"]

\* The client was started with rawWorkspace; as_uri(filePath) is called.
AsUri ==
    /\ uriOut.exc = "unset"
    /\ uriOut' = as_uri(format_workspace(rawWorkspace), filePath)
    /\ UNCHANGED <<nonUriVars, rawWorkspace, filePath>>

NextUri == AsUri

\* ------------------------------------------------------------------ SpecConf
\* configuration_map of WithRespondConfigurationRequest and the start of
\* Client.__asynccontextmanager__ (client/abc.py).  A ConfigurationMap is
\* named by who made it.
NoMap == "None"
DefaultMap == "default"
UserMaps == {"user1", "user2"}

\* The client object is constructed: a class that supports configuration
\* requests or does not, whose create_default_configuration_map returns a
\* map or None; configuration_map has its declared default, None.
InitConf ==
    /\ confPc = "constructed"
    /\ configuration_map = NoMap
    /\ mapBefore = NoMap
    /\ entries = 0

\* The user assigns a configuration map, or None, to the client outside
\* its scope.
UserSetsMap(m) ==
    /\ confPc = "constructed"
    /\ supportsConf
    /\ configuration_map' = m
    /\ UNCHANGED <<nonConfVars, supportsConf, defaultConf, confPc, mapBefore, entries>>

\* Mutant of default_configuration_map: the default replaces whatever map
\* there is.
default_configuration_map_always(supported, current, default) ==
    IF supported /\ default # NoMap THEN default ELSE current

\* The first statements of __asynccontextmanager__: the map the client has
\* after them.
default_configuration_map(supported, current, default) ==
    IF supported /\ current = NoMap
    THEN IF default # NoMap THEN default ELSE current
    ELSE current

\* The scope of the client is entered.
EnterClient ==
    /\ confPc = "constructed"
    /\ entries < MaxEntries
    /\ entries' = entries + 1
    /\ mapBefore' = configuration_map
    /\ configuration_map' =
           default_configuration_map(supportsConf, configuration_map, defaultConf)
    /\ confPc' = "entered"
    /\ UNCHANGED <<nonConfVars, supportsConf, defaultConf>>

\* The scope is left; the client object stays as it is.
LeaveClient ==
    /\ confPc = "entered"
    /\ confPc' = "constructed"
    /\ UNCHANGED <<nonConfVars, supportsConf, defaultConf, configuration_map, mapBefore,
                   entries>>

NextConf ==
    \/ \E m \in UserMaps \cup {NoMap} : UserSetsMap(m)
    \/ EnterClient
    \/ LeaveClient

\* ------------------------------------------------------------------ SpecFrame
\* read_raw_package / write_raw_package (server/jsonrpc.py) over the stdout
\* of the server process, read by LocalServer.receive (server/local.py).
\*
\* The stream is a sequence of bytes.  The text of a header name is one
\* element: "Content-Length", "content-length" (the same name in lower
\* case) and "Content-Type: x" (a whole other header line); the other
\* elements are single bytes.
CRLF == <<"CR", "LF">>
DigitChars == <<"0", "1", "2", "3", "4", "5", "6", "7", "8", "9">>

\* str(length): the decimal digits of a natural number.
RECURSIVE Digits(_)
Digits(n) ==
    IF n < Len(DigitChars) THEN <<DigitChars[n + 1]>>
    ELSE Digits(n \div Len(DigitChars)) \o <<DigitChars[(n % Len(DigitChars)) + 1]>>

IsDigit(c) == \E d \in 1..Len(DigitChars) : DigitChars[d] = c
DigitValue(c) == (CHOOSE d \in 1..Len(DigitChars) : DigitChars[d] = c) - 1

\* int(text) of a non-empty sequence of digits.
RECURSIVE ParseInt(_)
ParseInt(digits) ==
    IF Len(digits) = 1 THEN DigitValue(digits[1])
    ELSE ParseInt(SubSeq(digits, 1, Len(digits) - 1)) * Len(DigitChars)
             + DigitValue(digits[Len(digits)])

\* A package is the sequence of the bytes of its members; package_serialize
\* puts them in braces, json.loads takes them out again and fails on a
\* body that is not an object in braces.
Payloads == UNION {[1..n -> {"a"}] : n \in 0..MaxPayload}
package_serialize(package) == <<"{">> \o package \o <<"}">>
json_loads(body) ==
    IF Len(body) >= 2 /\ body[1] = "{" /\ body[Len(body)] = "}"
          /\ SubSeq(body, 2, Len(body) - 1) \in Payloads
    THEN [exc |-> "none", package |-> SubSeq(body, 2, Len(body) - 1)]
    ELSE [exc |-> "JSONDecodeError"]

\* write_raw_package: the bytes sent.
write_raw_package(package) ==
    LET dumped == package_serialize(package)
    IN  <<"Content-Length", ":", " ">> \o Digits(Len(dumped)) \o CRLF \o CRLF \o dumped

\* The frames a server may write for a package: the frame of
\* write_raw_package, the same with the header name in lower case, with a
\* Content-Type header before or after Content-Length; and a frame that
\* announces a body of zero bytes.
FrameKinds == {"written", "lower", "typeBefore", "typeAfter"}
FrameShapes == {[kind |-> k, package |-> p] : k \in FrameKinds, p \in Payloads}
                   \cup {[kind |-> "empty", package |-> <<>>]}
frame_bytes(frame) ==
    LET dumped == package_serialize(frame.package)
        length == Digits(Len(dumped))
    IN  CASE frame.kind = "written" -> write_raw_package(frame.package)
          [] frame.kind = "lower" ->
                <<"content-length", ":", " ">> \o length \o CRLF \o CRLF \o dumped
          [] frame.kind = "typeBefore" ->
                <<"Content-Type: x">> \o CRLF \o <<"Content-Length", ":", " ">> \o length
                    \o CRLF \o CRLF \o dumped
          [] frame.kind = "typeAfter" ->
                <<"Content-Length", ":", " ">> \o length \o CRLF \o <<"Content-Type: x">>
                    \o CRLF \o CRLF \o dumped
          [] frame.kind = "empty" ->
                <<"Content-Length", ":", " ">> \o Digits(0) \o CRLF \o CRLF

RECURSIVE stream_of(_)
stream_of(fs) == IF fs = <<>> THEN <<>> ELSE frame_bytes(Head(fs)) \o stream_of(Tail(fs))

\* BufferedByteReceiveStream.receive_until(b"\r\n", ...): the bytes before
\* the first delimiter, which is consumed; IncompleteRead when the stream
\* ends before one.
receive_until(bytes) ==
    LET at == {i \in 1..(Len(bytes) - 1) : bytes[i] = "CR" /\ bytes[i + 1] = "LF"}
    IN  IF at = {} THEN [exc |-> "IncompleteRead"]
        ELSE LET i == CHOOSE i \in at : \A j \in at : i <= j
             IN  [exc |-> "none", data |-> SubSeq(bytes, 1, i - 1),
                  rest |-> SubSeq(bytes, i + 2, Len(bytes))]

\* BufferedByteReceiveStream.receive_exactly(n)
receive_exactly(bytes, n) ==
    IF Len(bytes) < n THEN [exc |-> "IncompleteRead"]
    ELSE [exc |-> "none", data |-> SubSeq(bytes, 1, n), rest |-> SubSeq(bytes, n + 1, Len(bytes))]

\* HEADER_RE.match(header): "Content-Length:", any spaces, one or more
\* digits, at the start of the line.  Yields the digits (<<>>: no match).
HEADER_RE_match(header) ==
    IF Len(header) < 2 \/ header[1] # "Content-Length" \/ header[2] # ":" THEN <<>>
    ELSE LET lo == CHOOSE i \in 3..(Len(header) + 1) :
                       /\ \A j \in 3..(i - 1) : header[j] = " "
                       /\ i <= Len(header) => header[i] # " "
             hi == CHOOSE i \in (lo - 1)..Len(header) :
                       /\ \A j \in lo..i : IsDigit(header[j])
                       /\ i < Len(header) => ~IsDigit(header[i + 1])
         IN  SubSeq(header, lo, hi)

\* read_raw_package: the package or the exception, and the bytes left.
read_raw_package(bytes) ==
    LET line == receive_until(bytes) IN
    IF line.exc # "none" THEN [exc |-> line.exc, rest |-> bytes]
    ELSE IF line.data = <<>> THEN [exc |-> "EOFError", rest |-> line.rest]
    ELSE LET digits == HEADER_RE_match(line.data) IN
         IF digits = <<>> \/ ParseInt(digits) = 0
         THEN [exc |-> "ValueError", rest |-> line.rest]
         ELSE LET blank == receive_until(line.rest) IN
              IF blank.exc # "none" THEN [exc |-> blank.exc, rest |-> line.rest]
              ELSE LET body == receive_exactly(blank.rest, ParseInt(digits)) IN
                   IF body.exc # "none" THEN [exc |-> body.exc, rest |-> blank.rest]
                   ELSE LET loaded == json_loads(body.data) IN
                        IF loaded.exc # "none" THEN [exc |-> loaded.exc, rest |-> body.rest]
                        ELSE [exc |-> "none", package |-> loaded.package, rest |-> body.rest]

\* The server has written its frames and closed its stdout; nothing has
\* been read.
InitFrame ==
    /\ inBytes = stream_of(frames)
    /\ readOut = <<>>
    /\ readPc = "reading"

\* LocalServer.receive, called by the read loop: the next package; None at
\* the end of the stream (EndOfStream, IncompleteRead), which ends the loop;
\* any other exception leaves receive and ends the loop with it.
Receive ==
    /\ readPc = "reading"
    /\ LET got == read_raw_package(inBytes) IN
       /\ inBytes' = got.rest
       /\ readOut' = Append(readOut, [exc |-> got.exc,
                                      package |-> IF got.exc = "none" THEN got.package
                                                  ELSE <<>>])
       /\ readPc' = IF got.exc = "none" THEN "reading"
                    ELSE IF got.exc = "IncompleteRead" THEN "eof" ELSE "failed"
    /\ UNCHANGED <<nonFrameVars, frames>>

NextFrame == Receive

\* ------------------------------------------------------------------ SpecShot
\* One channel of channel.py: oneshot_channel.create() or
\* manyshot_channel.create(expect_count), the calls of send on its sender and
\* the receive of its receiver.  expect_count is the number of processes
\* (len(self._processes), asserted >= 1 in LSPServerPool.start).
Items == 1..NumItems

ExpectCounts == 1..MaxExpect

NoChannel == [kind |-> "none", expect_count |-> 0, data |-> <<>>, is_set |-> FALSE]

InitShot == /\ shotEvent = NoChannel
            /\ shotCalls = <<>>
            /\ shotGot = [done |-> FALSE, value |-> <<>>]

\* DataEvent() / ManyDataEvent(expect_count): an event that is not set.
oneshot_channel_create ==
    /\ shotEvent = NoChannel
    /\ shotEvent' = [kind |-> "one", expect_count |-> 1, data |-> <<>>, is_set |-> FALSE]
    /\ UNCHANGED <<shotCalls, shotGot, nonShotVars>>

manyshot_channel_create(n) ==
    /\ shotEvent = NoChannel
    /\ shotEvent' = [kind |-> "many", expect_count |-> n, data |-> <<>>, is_set |-> FALSE]
    /\ UNCHANGED <<shotCalls, shotGot, nonShotVars>>

\* DataEvent.set_data: the data is replaced and the event is set.
DataEvent_set_data(e, data) == [e EXCEPT !.data = <<data>>, !.is_set = TRUE]

ManyDataEvent_set_data_late(e, data) ==
    LET appended == Append(e.data, data)
    IN  [e EXCEPT !.data = appended,
                  !.is_set = e.is_set \/ Len(appended) > e.expect_count]

\* ManyDataEvent.set_data: the data is appended, and the event is set once
\* the list holds expect_count items.
ManyDataEvent_set_data(e, data) ==
    LET appended == Append(e.data, data)
    IN  [e EXCEPT !.data = appended,
                  !.is_set = e.is_set \/ Len(appended) >= e.expect_count]

\* OneShotSender.send / ManyShotSender.send: RuntimeError when the event is
\* set already, set_data otherwise.
ShotSender_send(item) ==
    /\ shotEvent.kind # "none"
    /\ Len(shotCalls) < MaxSends
    /\ IF shotEvent.is_set
       THEN /\ shotCalls' = Append(shotCalls, [item |-> item, raised |-> "RuntimeError"])
            /\ UNCHANGED shotEvent
       ELSE /\ shotCalls' = Append(shotCalls, [item |-> item, raised |-> "nothing"])
            /\ shotEvent' = IF shotEvent.kind = "one"
                            THEN DataEvent_set_data(shotEvent, item)
                            ELSE ManyDataEvent_set_data(shotEvent, item)
    /\ UNCHANGED <<shotGot, nonShotVars>>

\* OneShotReceiver.receive / ManyShotReceiver.receive: wait_data() returns
\* once the event is set: the item of a DataEvent (here a list of one), the
\* list of a ManyDataEvent.
ShotReceiver_receive ==
    /\ shotEvent.kind # "none"
    /\ ~shotGot.done
    /\ shotEvent.is_set
    /\ shotGot' = [done |-> TRUE, value |-> shotEvent.data]
    /\ UNCHANGED <<shotEvent, shotCalls, nonShotVars>>

NextShot == \/ oneshot_channel_create
            \/ \E n \in ExpectCounts : manyshot_channel_create(n)
            \/ \E item \in Items : ShotSender_send(item)
            \/ ShotReceiver_receive

\* ------------------------------------------------------------------ SpecDrain
\* ShotTable of utils/channel.py: tasks that wait for the response to their
\* request (wait), the read loop that hands the responses over (send), and
\* tasks that wait for the table to be empty (wait_complete).  A request of
\* task t bears the id t.
Drainers == 1..NumDrainers

InitDrain == /\ tblPending = {}
             /\ tblPc = [t \in Tasks |-> "idle"]
             /\ tblEvent = [t \in Tasks |-> FALSE]
             /\ drainPc = [w \in Drainers |-> "idle"]

\* ShotTable.wait up to rx.receive(): register(id, tx) stores the sender.
ShotTable_wait(t) ==
    /\ tblPc[t] = "idle"
    /\ tblPending' = tblPending \cup {t}
    /\ tblPc' = [tblPc EXCEPT ![t] = "waiting"]
    /\ UNCHANGED <<tblEvent, drainPc, nonDrainVars>>

\* _empty_cond.notify_all(): every task suspended in _empty_cond.wait() is
\* made runnable.
notify_all(d) == [w \in Drainers |-> IF d[w] = "blocked" THEN "notified" ELSE d[w]]

\* ShotTable.send(id, data) for an id of the table: the sender gets the data,
\* the id is popped, and the condition is notified when the table is empty.
ShotTable_send_response(t) ==
    /\ t \in tblPending
    /\ tblEvent' = [tblEvent EXCEPT ![t] = TRUE]
    /\ tblPending' = tblPending \ {t}
    /\ drainPc' = IF tblPending' # {} THEN drainPc ELSE notify_all(drainPc)
    /\ UNCHANGED <<tblPc, nonDrainVars>>

\* ShotTable.wait, `finally: self._pending.pop(id, None)`.
wait_finally(t) ==
    /\ tblPending' = tblPending \ {t}
    /\ UNCHANGED drainPc

\* rx.receive() returns the data of the response.
ShotTable_wait_returns(t) ==
    /\ tblPc[t] = "waiting"
    /\ tblEvent[t]
    /\ tblPc' = [tblPc EXCEPT ![t] = "response"]
    /\ wait_finally(t)
    /\ UNCHANGED <<tblEvent, nonDrainVars>>

\* The wait is abandoned in rx.receive(): the timeout of the receiver or of
\* the caller (how = "TimeoutError"), or the cancellation of the caller
\* (how = "CancelledError").
ShotTable_wait_abandoned(t, how) ==
    /\ tblPc[t] = "waiting"
    /\ ~tblEvent[t]
    /\ tblPc' = [tblPc EXCEPT ![t] = how]
    /\ wait_finally(t)
    /\ UNCHANGED <<tblEvent, nonDrainVars>>

\* ShotTable.wait_complete: under the condition, `while self._pending: await
\* self._empty_cond.wait()`.  The call, and every resumption after a notify,
\* returns when the table is empty and waits otherwise.
wait_complete(w) ==
    /\ drainPc[w] \in {"idle", "notified"}
    /\ drainPc' = [drainPc EXCEPT ![w] = IF tblPending = {} THEN "returned" ELSE "blocked"]
    /\ UNCHANGED <<tblPending, tblPc, tblEvent, nonDrainVars>>

\* The steps of the tasks of the client, which the event loop runs when they
\* are runnable.
DrainSteps == \/ \E t \in Tasks : ShotTable_wait_returns(t)
              \/ \E w \in Drainers : wait_complete(w)

NextDrain == \/ \E t \in Tasks : ShotTable_wait(t)
             \/ \E t \in Tasks : ShotTable_send_response(t)
             \/ \E t \in Tasks : \E how \in {"TimeoutError", "CancelledError"} :
                   ShotTable_wait_abandoned(t, how)
             \/ DrainSteps

\* ------------------------------------------------------------------ SpecClassify
\* The read loop of the server object and the first step of the task it makes
\* for each package: Server._dispatch (server/abc.py), the same `match` as in
\* process_worker (server/process.py) and StdioServer._process_worker.  A
\* package is told by the keys it has; the client gives a sender.
Keys == {"id", "result", "error", "method"}

\* The packages a server may write: any keys, an id when it has the key.
Packages == {[keys |-> ks, id |-> i] : ks \in SUBSET Keys, i \in IDs \cup {NoId}}

WrittenPackages == {p \in Packages : ("id" \in p.keys) <=> (p.id # NoId)}

InitClassify == /\ rxWire = <<>>
                /\ rxRead = 0
                /\ rxTasks = {}
                /\ rxTable = <<>>
                /\ rxChannel = <<>>
                /\ rxCreated = 0

\* The server writes a package.
ServerEmits(p) ==
    /\ Len(rxWire) < MaxMessages
    /\ rxWire' = Append(rxWire, p)
    /\ UNCHANGED <<rxRead, rxTasks, rxTable, rxChannel, rxCreated, nonClassifyVars>>

\* `while package := await self.receive(): tg.soonify(handle)(package)`: the
\* next package of the stream is read and a task is made for it.
ReadLoop ==
    /\ rxRead < Len(rxWire)
    /\ rxRead' = rxRead + 1
    /\ rxTasks' = rxTasks \cup {rxRead + 1}
    /\ UNCHANGED <<rxWire, rxTable, rxChannel, rxCreated, nonClassifyVars>>

match_method_first(keys) ==
    IF "method" \in keys THEN "notification"
    ELSE IF "id" \in keys /\ ("result" \in keys \/ "error" \in keys) THEN "response"
    ELSE "none"

\* The `match` of handle: the first case that fits, in the order of the code:
\* {"result", "id"} | {"error", "id"}, then {"id", "method"}, then {"method"}.
match(keys) ==
    IF "id" \in keys /\ ("result" \in keys \/ "error" \in keys) THEN "response"
    ELSE IF "id" \in keys /\ "method" \in keys THEN "request"
    ELSE IF "method" \in keys THEN "notification"
    ELSE "none"

\* handle(package) up to its first await: a response is given to the
\* response table; a request is sent on the sender with the sender of a new
\* response channel; a notification is sent on the sender alone; any other
\* package fits no case and the task ends.
ClassifyHandle(n) ==
    /\ n \in rxTasks
    /\ rxTasks' = rxTasks \ {n}
    /\ LET class == match(rxWire[n].keys)
       IN  /\ rxTable' = IF class = "response"
                         THEN Append(rxTable, [n |-> n, id |-> rxWire[n].id])
                         ELSE rxTable
           /\ rxCreated' = IF class = "request" THEN rxCreated + 1 ELSE rxCreated
           /\ rxChannel' = CASE class = "request" ->
                                  Append(rxChannel, [n |-> n, tx |-> rxCreated + 1])
                             [] class = "notification" ->
                                  Append(rxChannel, [n |-> n, tx |-> 0])
                             [] OTHER -> rxChannel
    /\ UNCHANGED <<rxWire, rxRead, nonClassifyVars>>

NextClassify == \/ \E p \in WrittenPackages : ServerEmits(p)
                \/ ReadLoop
                \/ \E n \in rxTasks : ClassifyHandle(n)

\* ------------------------------------------------------------------ SpecWire
\* Tasks that send packages to one server process at the same time:
\* LocalServer.send -> write_raw_package -> sender.send(header + dumped).
\* The stream is the stdin of the process: send writes what the pipe takes
\* at once, leaves the rest in the buffer of the transport behind what is
\* there already, and waits until the buffer is flushed (drain).
Writers == 1..NumWriters

InitWire == /\ wrPipe = <<>>
            /\ wrBuffer = <<>>
            /\ wrPc = [t \in Writers |-> "idle"]
            /\ wrLeft = [t \in Writers |-> <<>>]
            /\ wrLog = <<>>

\* The header of write_raw_package and the body, sent one after the other.
send_calls_split(package) ==
    LET all == write_raw_package(package)
        dumped == package_serialize(package)
    IN  <<SubSeq(all, 1, Len(all) - Len(dumped)), dumped>>

\* The calls of sender.send that write_raw_package makes for a package: one,
\* with the header and the body.
send_calls(package) == <<write_raw_package(package)>>

\* The transport writes data: with an empty buffer the pipe takes the first
\* k bytes at once and the rest is buffered; otherwise all of it is buffered
\* behind what is there.
TransportWrite(data, k) ==
    IF wrBuffer = <<>>
    THEN /\ wrPipe' = wrPipe \o SubSeq(data, 1, k)
         /\ wrBuffer' = SubSeq(data, k + 1, Len(data))
    ELSE /\ wrBuffer' = wrBuffer \o data
         /\ UNCHANGED wrPipe

\* Task t calls send(package): up to the first suspension, in the drain of
\* the first call of sender.send.
WireSend(t, package, k) ==
    /\ wrPc[t] = "idle"
    /\ Len(wrLog) < MaxWrites
    /\ LET calls == send_calls(package)
       IN  /\ k \in 0..Len(Head(calls))
           /\ TransportWrite(Head(calls), k)
           /\ wrLeft' = [wrLeft EXCEPT ![t] = Tail(calls)]
    /\ wrLog' = Append(wrLog, [by |-> t, bytes |-> write_raw_package(package)])
    /\ wrPc' = [wrPc EXCEPT ![t] = "draining"]
    /\ UNCHANGED nonWireVars

\* The drain of task t returns: the next call of sender.send, if one is
\* left, and the return of send otherwise.
WireDrained(t, k) ==
    /\ wrPc[t] = "draining"
    /\ IF wrLeft[t] = <<>>
       THEN /\ k = 0
            /\ wrPc' = [wrPc EXCEPT ![t] = "idle"]
            /\ UNCHANGED <<wrPipe, wrBuffer, wrLeft>>
       ELSE /\ k \in 0..Len(Head(wrLeft[t]))
            /\ TransportWrite(Head(wrLeft[t]), k)
            /\ wrLeft' = [wrLeft EXCEPT ![t] = Tail(wrLeft[t])]
            /\ UNCHANGED wrPc
    /\ UNCHANGED <<wrLog, nonWireVars>>

\* The pipe is writable again: the transport writes the first k bytes of
\* its buffer.
TransportFlush(k) ==
    /\ k \in 1..Len(wrBuffer)
    /\ wrPipe' = wrPipe \o SubSeq(wrBuffer, 1, k)
    /\ wrBuffer' = SubSeq(wrBuffer, k + 1, Len(wrBuffer))
    /\ UNCHANGED <<wrPc, wrLeft, wrLog, nonWireVars>>

MaxFrameBytes == Len(write_raw_package([n \in 1..MaxPayload |-> "a"]))

NextWire == \/ \E t \in Writers, p \in Payloads, k \in 0..MaxFrameBytes : WireSend(t, p, k)
            \/ \E t \in Writers, k \in 0..MaxFrameBytes : WireDrained(t, k)
            \/ \E k \in 1..(MaxWrites * MaxFrameBytes) : TransportFlush(k)

\* ------------------------------------------------------------------ SpecDown
\* The end of a session over LSPServerPool (server/base.py) with one
\* process (server_count = 1): the client of capability/client.py puts its
\* requests, its shutdown request and its exit notification on the request
\* channel and leaves; LSPServerPool.start then runs what follows its
\* `yield`.  An item of the channel is known by its index in dnItems.  The
\* process answers a request once it is registered.
InitDown == /\ dnItems = <<>>
            /\ dnClient = "body"
            /\ dnTable = {}
            /\ dnWritten = <<>>
            /\ dnPool = "serving"
            /\ dnWorkers = "running"
            /\ dnProc = "running"
            /\ dnClosed = FALSE

\* The items of a session: the requests, shutdown and exit.
MaxDownItems == MaxDownRequests + 2

DownItems(kind) == {i \in 1..Len(dnItems) : dnItems[i].kind = kind}

CallerWaits(i) == dnItems[i].caller = "waiting"

\* Sender.send: the item is put on the queue of the channel.
ChannelPut(kind, caller) ==
    dnItems' = Append(dnItems, [kind |-> kind, pc |-> "queued", caller |-> caller,
                                responded |-> FALSE])

\* LSPCapabilityClientBase.request in a task of the client: the request is
\* sent on the channel and the task waits in rx.receive().
ClientRequests ==
    /\ dnClient = "body"
    /\ Cardinality(DownItems("request")) < MaxDownRequests
    /\ ChannelPut("request", "waiting")
    /\ UNCHANGED <<dnClient, dnTable, dnWritten, dnPool, dnWorkers, dnProc, dnClosed,
                   nonDownVars>>

\* The task of a request is cancelled while it waits for the response.
CallerCancelled(i) ==
    /\ i \in DownItems("request")
    /\ CallerWaits(i)
    /\ ~dnItems[i].responded
    /\ dnItems' = [dnItems EXCEPT ![i].caller = "cancelled"]
    /\ UNCHANGED <<dnClient, dnTable, dnWritten, dnPool, dnWorkers, dnProc, dnClosed,
                   nonDownVars>>

\* rx.receive() of a request or of shutdown returns the response.
CallerReturns(i) ==
    /\ i \in 1..Len(dnItems)
    /\ CallerWaits(i)
    /\ dnItems[i].responded
    /\ dnItems' = [dnItems EXCEPT ![i].caller = "returned"]
    /\ UNCHANGED <<dnClient, dnTable, dnWritten, dnPool, dnWorkers, dnProc, dnClosed,
                   nonDownVars>>

\* LSPCapabilityClientBase.start, `finally`: the shutdown request.
ClientShutdown ==
    /\ dnClient = "body"
    /\ ChannelPut("shutdown", "waiting")
    /\ dnClient' = "shutdown"
    /\ UNCHANGED <<dnTable, dnWritten, dnPool, dnWorkers, dnProc, dnClosed, nonDownVars>>

\* LSPCapabilityClientBase.start, after its task group: shutdown has
\* returned and no task of a request is left; the exit notification is sent
\* and the client is closed.
ClientExit ==
    /\ dnClient = "shutdown"
    /\ \A i \in 1..Len(dnItems) : ~CallerWaits(i)
    /\ ChannelPut("exit", "none")
    /\ dnClient' = "exited"
    /\ UNCHANGED <<dnTable, dnWritten, dnPool, dnWorkers, dnProc, dnClosed, nonDownVars>>

\* _client_worker: `req = await self._runtime.receiver.receive()` takes the
\* first item of the queue and creates the task handle(req).
ClientWorkerReceives(i) ==
    /\ dnWorkers = "running"
    /\ i \in 1..Len(dnItems)
    /\ dnItems[i].pc = "queued"
    /\ \A j \in 1..(i - 1) : dnItems[j].pc # "queued"
    /\ dnItems' = [dnItems EXCEPT ![i].pc = "spawned"]
    /\ UNCHANGED <<dnClient, dnTable, dnWritten, dnPool, dnWorkers, dnProc, dnClosed,
                   nonDownVars>>

\* handle(req) up to the await of process.send_package: the package is
\* written to the process.
HandleWrites(i) ==
    /\ dnWorkers = "running"
    /\ i \in 1..Len(dnItems)
    /\ dnItems[i].pc = "spawned"
    /\ dnWritten' = Append(dnWritten, i)
    /\ dnItems' = [dnItems EXCEPT ![i].pc = "written"]
    /\ UNCHANGED <<dnClient, dnTable, dnPool, dnWorkers, dnProc, dnClosed, nonDownVars>>

\* handle(req) after the write: send_req registers the id of a request in
\* the table of client requests; then receiver.task_done().
HandleRegisters(i) ==
    /\ dnWorkers = "running"
    /\ i \in 1..Len(dnItems)
    /\ dnItems[i].pc = "written"
    /\ dnTable' = IF dnItems[i].kind = "exit" THEN dnTable ELSE dnTable \cup {i}
    /\ dnItems' = [dnItems EXCEPT ![i].pc = "done"]
    /\ UNCHANGED <<dnClient, dnWritten, dnPool, dnWorkers, dnProc, dnClosed, nonDownVars>>

\* The process answers a request and _process_worker hands the response to
\* the table: ShotTable.send gives it to the sender and pops the id.
ProcessResponds(i) ==
    /\ dnWorkers = "running"
    /\ i \in dnTable
    /\ dnTable' = dnTable \ {i}
    /\ dnItems' = [dnItems EXCEPT ![i].responded = TRUE]
    /\ UNCHANGED <<dnClient, dnWritten, dnPool, dnWorkers, dnProc, dnClosed, nonDownVars>>

\* asyncio.Queue._unfinished_tasks of the request channel: the items put
\* for which task_done was not called.
unfinished_tasks == Cardinality({i \in 1..Len(dnItems) : dnItems[i].pc # "done"})

\* LSPServerPool.start after `yield instance`, from one await to the next:
\* wait_complete() returns with an empty table, join() with no unfinished
\* item; then the workers are cancelled, the processes shut down and the
\* pool closed.
teardown(at) ==
    CASE at = "serving" -> IF dnClient = "exited" THEN "wait_complete" ELSE "serving"
      [] at = "wait_complete" -> IF dnTable = {} THEN "join" ELSE "wait_complete"
      [] at = "join" -> IF unfinished_tasks = 0 THEN "cancel" ELSE "join"
      [] at = "cancel" -> "reap"
      [] at = "reap" -> "close"
      [] at = "close" -> "closed"
      [] OTHER -> at

\* One step of the teardown.
PoolTeardown ==
    /\ teardown(dnPool) # dnPool
    /\ dnPool' = teardown(dnPool)
    /\ dnWorkers' = IF dnPool = "cancel" THEN "cancelled" ELSE dnWorkers
    /\ dnProc' = IF dnPool = "reap" THEN "reaped" ELSE dnProc
    /\ dnClosed' = IF dnPool = "close" THEN TRUE ELSE dnClosed
    /\ UNCHANGED <<dnItems, dnClient, dnTable, dnWritten, nonDownVars>>

NextDown == \/ ClientRequests
            \/ \E i \in 1..MaxDownItems : CallerCancelled(i)
            \/ \E i \in 1..MaxDownItems : CallerReturns(i)
            \/ ClientShutdown
            \/ ClientExit
            \/ \E i \in 1..MaxDownItems : ClientWorkerReceives(i)
            \/ \E i \in 1..MaxDownItems : HandleWrites(i)
            \/ \E i \in 1..MaxDownItems : HandleRegisters(i)
            \/ \E i \in 1..MaxDownItems : ProcessResponds(i)
            \/ PoolTeardown

\* ------------------------------------------------------------------ SpecQueue
\* The queue channel of channel.py: Sender.send, tasks that take an item in
\* `async with receiver.handle() as item:` and a task in Receiver.join.
\* The queue is an asyncio.Queue: put and get count the unfinished items,
\* task_done raises ValueError when none is unfinished.
Handlers == 1..NumHandlers

InitQueue == /\ qItems = <<>>
             /\ qUnfinished = 0
             /\ qPc = [h \in Handlers |-> "idle"]
             /\ qSent = 0
             /\ qProcessed = 0
             /\ qDoneCalls = 0
             /\ qRaised = {}
             /\ qJoin = "idle"

\* Sender.send: Queue.put adds the item and counts it as unfinished.
QueueSend ==
    /\ qSent < MaxPuts
    /\ qSent' = qSent + 1
    /\ qItems' = Append(qItems, qSent + 1)
    /\ qUnfinished' = qUnfinished + 1
    /\ UNCHANGED <<qPc, qProcessed, qDoneCalls, qRaised, qJoin, nonQueueVars>>

\* Queue.task_done as the `finally` of handle calls it: ValueError when no
\* item is unfinished, one unfinished item less otherwise.
task_done(h) ==
    IF qUnfinished <= 0
    THEN /\ qRaised' = qRaised \cup {h}
         /\ UNCHANGED <<qUnfinished, qDoneCalls>>
    ELSE /\ qUnfinished' = qUnfinished - 1
         /\ qDoneCalls' = qDoneCalls + 1
         /\ UNCHANGED qRaised

\* Receiver.handle is entered, or the get in it is resumed: `yield await
\* self._queue.get()` gives the first item when there is one and waits
\* otherwise.
HandleGet(h) ==
    /\ qPc[h] \in {"idle", "waiting"}
    /\ qPc[h] = "idle" \/ qItems # <<>>
    /\ IF qItems # <<>>
       THEN /\ qItems' = Tail(qItems)
            /\ qPc' = [qPc EXCEPT ![h] = "processing"]
       ELSE /\ qPc' = [qPc EXCEPT ![h] = "waiting"]
            /\ UNCHANGED qItems
    /\ UNCHANGED <<qUnfinished, qSent, qProcessed, qDoneCalls, qRaised, qJoin, nonQueueVars>>

\* The body of the `async with` ends (it returns, raises or is cancelled):
\* the `finally` of handle calls task_done.
HandleBodyEnds(h) ==
    /\ qPc[h] = "processing"
    /\ qProcessed' = qProcessed + 1
    /\ task_done(h)
    /\ qPc' = [qPc EXCEPT ![h] = IF qUnfinished <= 0 THEN "ValueError" ELSE "idle"]
    /\ UNCHANGED <<qItems, qSent, qJoin, nonQueueVars>>

\* The task is cancelled while it waits in get: no item was received, and
\* the `finally` of handle runs all the same.
HandleCancelledInGet(h) ==
    /\ qPc[h] = "waiting"
    /\ task_done(h)
    /\ qPc' = [qPc EXCEPT ![h] = IF qUnfinished <= 0 THEN "ValueError" ELSE "CancelledError"]
    /\ UNCHANGED <<qItems, qSent, qProcessed, nonQueueVars, qJoin>>

\* Receiver.join: Queue.join returns when no item is unfinished.
QueueJoin ==
    /\ qJoin \in {"idle", "waiting"}
    /\ qJoin = "idle" \/ qUnfinished = 0
    /\ qJoin' = IF qUnfinished = 0 THEN "returned" ELSE "waiting"
    /\ UNCHANGED <<qItems, qUnfinished, qPc, qSent, qProcessed, qDoneCalls, qRaised,
                   nonQueueVars>>

NextQueue == \/ QueueSend
             \/ \E h \in Handlers : HandleGet(h)
             \/ \E h \in Handlers : HandleBodyEnds(h)
             \/ \E h \in Handlers : HandleCancelledInGet(h)
             \/ QueueJoin

\* ------------------------------------------------------------------ SpecDefault
\* client_capabilities_with_default (client/capabilities.py) over the
\* module-level document FULL_FEATURED_CLIENT_CAPABILITY, with the heap and
\* the values of SpecCaps.  A key of the update is a sequence of characters:
\* names of fields with "." between them.
FULL_FEATURED_CLIENT_CAPABILITY ==
    Instance("ClientCapabilities", Instance("S", Atom(1), PyNone), Atom(1))

\* The module is imported: the document is constructed once.
ModuleHeap == construct(<<>>, FULL_FEATURED_CLIENT_CAPABILITY).h
DefaultRef == construct(<<>>, FULL_FEATURED_CLIENT_CAPABILITY).v

InitDefaultDoc == /\ defHeap = ModuleHeap
                  /\ defCalls = <<>>

\* The keys an update may have: a field, or a field of the value of a field.
DottedKeys == {<<a>> : a \in Fields} \cup {<<a, ".", b>> : a \in Fields, b \in Fields}

\* The updates: a dict of at most MaxUpdateKeys items, in its order.
UpdateItems == {[key |-> k, value |-> v] : k \in DottedKeys, v \in Leaves}
Updates == {u \in UNION {[1..n -> UpdateItems] : n \in 0..MaxUpdateKeys} :
               \A i \in 1..Len(u) : \A j \in 1..Len(u) : u[i].key = u[j].key => i = j}

\* key.split("."): the names between the dots.
RECURSIVE split(_)
split(key) ==
    IF \A i \in 1..Len(key) : key[i] # "." THEN <<key>>
    ELSE LET dot == CHOOSE i \in 1..Len(key) :
                       key[i] = "." /\ \A j \in 1..(i - 1) : key[j] # "."
         IN  <<SubSeq(key, 1, dot - 1)>> \o split(SubSeq(key, dot + 1, Len(key)))

\* hasattr(current, k): current is an attrs instance and k is one of its
\* fields.
hasattr(current, k) == current.tag = "ref" /\ Len(k) = 1 /\ k[1] \in Fields

\* `for k in keys: ... current = getattr(current, k)`: the value reached,
\* or KeyError.
RECURSIVE walk(_, _, _)
walk(h, current, keys) ==
    IF keys = <<>> THEN [exc |-> "none", current |-> current]
    ELSE IF ~hasattr(current, Head(keys)) THEN [exc |-> "KeyError", current |-> current]
    ELSE walk(h, h[current.a].f[Head(keys)[1]], Tail(keys))

\* attrs.evolve(inst) without changes: a new instance whose fields hold the
\* values of the fields of inst, the same objects.
attrs_evolve(h, inst) == evolve(h, inst, h[inst.a].f)

\* One item of the update: the walk along the keys and
\* setattr(current, last_key, value).
apply_item(h, capabilities, item) ==
    LET parts == split(item.key)
        keys == SubSeq(parts, 1, Len(parts) - 1)
        last_key == parts[Len(parts)]
        at == walk(h, capabilities, keys)
    IN  IF at.exc # "none" THEN [h |-> h, exc |-> at.exc]
        ELSE IF ~hasattr(at.current, last_key) THEN [h |-> h, exc |-> "AttributeError"]
        ELSE [h |-> [h EXCEPT ![at.current.a].f[last_key[1]] = item.value], exc |-> "none"]

\* `for key, value in update.items()`: the items in order, up to the first
\* that raises.
RECURSIVE apply_items(_, _, _)
apply_items(h, capabilities, update) ==
    IF update = <<>> THEN [h |-> h, exc |-> "none"]
    ELSE LET first == apply_item(h, capabilities, Head(update))
         IN  IF first.exc # "none" THEN first
             ELSE apply_items(first.h, capabilities, Tail(update))

\* A call client_capabilities_with_default(update).
client_capabilities_with_default(update) ==
    /\ Len(defCalls) < MaxDefaultCalls
    /\ LET copy == attrs_evolve(defHeap, DefaultRef)
           out == apply_items(copy.h, copy.v, update)
       IN  /\ defHeap' = out.h
           /\ defCalls' = Append(defCalls, [update |-> update, exc |-> out.exc,
                                            returned |-> copy.v])
    /\ UNCHANGED nonDefaultVars

NextDefault == \E update \in Updates : client_capabilities_with_default(update)

\* ------------------------------------------------------------------ SpecAssoc
\* attrs_merge over three documents, grouped to the left (as attrs_merges
\* does) and to the right.  The documents are ClientCapabilities whose field
\* x holds None, an atom or the options of a feature (a field such as
\* `full: bool | ClientSemanticTokensRequestFullDelta | None`).
UnionDocuments == {Instance("ClientCapabilities", x, PyNone) : x \in Leaves \cup Options}

InitAssoc == assocOut = [done |-> FALSE]

\* attrs_merges(a, b, c) and attrs_merge(a, attrs_merge(b, c)) on documents
\* the caller has built.
AttrsRegroup ==
    /\ ~assocOut.done
    /\ LET ca == construct(<<>>, assocArgs[1])
           cb == construct(ca.h, assocArgs[2])
           cc == construct(cb.h, assocArgs[3])
           left == attrs_merges(cc.h, <<ca.v, cb.v, cc.v>>)
           inner == attrs_merge(cc.h, cb.v, cc.v)
           right == attrs_merge(inner.h, ca.v, inner.v)
       IN  assocOut' = [done |-> TRUE, left |-> Deref(left.h, left.v),
                        right |-> Deref(right.h, right.v)]
    /\ UNCHANGED <<assocArgs, nonAssocVars>>

NextAssoc == AttrsRegroup

\* ------------------------------------------------------------------ specifications
Init == InitMux /\ InitFiles /\ InitLife /\ InitStart /\ InitRun /\ InitPool
        /\ InitInbound /\ InitCaps /\ InitUri /\ InitConf
        /\ InitShot /\ InitDrain /\ InitClassify /\ InitWire /\ InitDown /\ InitQueue /\ InitDefaultDoc /\ InitAssoc

\* No arguments are given to the parts that compute a function.
NoMergeArgs == mergeArgs = <<PyNone, PyNone>>
NoUriArgs == rawWorkspace = [kind |-> "path", path |-> <<"w">>]
                 /\ filePath = [abs |-> FALSE, parts |-> <<"main.py">>]
NoClientClass == supportsConf = FALSE /\ defaultConf = NoMap
NoAssocArgs == assocArgs = <<PyNone, PyNone, PyNone>>
NoFrames == frames = <<>> /\ InitFrame
NoMore == NoAssocArgs
NoArgs == NoMergeArgs /\ NoUriArgs /\ NoClientClass /\ NoFrames /\ NoMore

\* The parts that read neither __debug__ nor the `server` argument of the
\* client start from their defaults.
InitDefault == Init /\ debug = TRUE /\ serverArg = "none" /\ NoArgs

InitNoServerArg == Init /\ serverArg = "none" /\ NoArgs

InitAnyServerArg == Init /\ debug = TRUE /\ NoArgs

StateDefault == Init /\ debug = TRUE /\ serverArg = "none"

\* Any two documents are given.
InitMergeArgs == StateDefault /\ mergeArgs \in Trees \X Trees /\ NoUriArgs /\ NoClientClass /\ NoFrames
                    /\ NoMore

\* Any workspace and any path are given.
InitUriArgs == StateDefault /\ NoMergeArgs /\ NoClientClass /\ NoFrames /\ NoMore
                  /\ rawWorkspace \in RawWorkspaces /\ filePath \in FilePaths

\* Any client class.
InitClientClass == StateDefault /\ NoMergeArgs /\ NoUriArgs /\ NoFrames /\ NoMore
                      /\ supportsConf \in BOOLEAN
                      /\ defaultConf \in {NoMap, DefaultMap}

SpecMux == InitDefault /\ [][NextMux]_vars

SpecFiles == InitDefault /\ [][NextFiles]_vars

SpecLife == InitNoServerArg /\ [][NextLife]_vars

\* Every task that can run does run in the end (the event loop is fair), and
\* the server does what it is assumed to do.
SpecStart == InitDefault /\ [][NextStart]_vars /\ WF_vars(NextStart)

\* The event loop is fair to the tasks of the client and the timeout of
\* fail_after fires; nothing is assumed of the server process.
SpecRun == InitAnyServerArg /\ [][NextRun]_vars /\ WF_vars(ClientSteps)

SpecPool == InitDefault /\ [][NextPool]_vars

SpecCaps == InitMergeArgs /\ [][NextCaps]_vars

SpecUri == InitUriArgs /\ [][NextUri]_vars

SpecConf == InitClientClass /\ [][NextConf]_vars

\* Any frames, one at least.
InitFrames == StateDefault /\ NoMergeArgs /\ NoUriArgs /\ NoClientClass /\ NoMore
                 /\ frames \in UNION {[1..n -> FrameShapes] : n \in 1..MaxFrames}
                 /\ InitFrame

SpecFrame == InitFrames /\ [][NextFrame]_vars

\* The event loop is fair to the tasks of the client and of the server
\* object.
SpecInbound == InitDefault /\ [][NextInbound]_vars /\ WF_vars(InboundSteps)

SpecShot == InitDefault /\ [][NextShot]_vars

\* The event loop is fair to the tasks that are runnable; nothing is assumed
\* of the responses and of the timeouts.
SpecDrain == InitDefault /\ [][NextDrain]_vars /\ WF_vars(DrainSteps)

SpecClassify == InitDefault /\ [][NextClassify]_vars

SpecWire == InitDefault /\ [][NextWire]_vars

SpecDown == InitDefault /\ [][NextDown]_vars

SpecQueue == InitDefault /\ [][NextQueue]_vars

SpecDefault == InitDefault /\ [][NextDefault]_vars

\* Any three documents are given.
InitAssocArgs == StateDefault /\ NoMergeArgs /\ NoUriArgs /\ NoClientClass /\ NoFrames
                    /\ assocArgs \in UnionDocuments \X UnionDocuments \X UnionDocuments

SpecAssoc == InitAssocArgs /\ [][NextAssoc]_vars

\* ------------------------------------------------------------------ claims on SpecMux

\* The requests issued so far bear pairwise distinct ids.
DistinctIds ==
    \A s, t \in Tasks :
        (s # t /\ reqId[s] # NoId /\ reqId[t] # NoId) => reqId[s] # reqId[t]

\* C1: with pairwise distinct ids, whatever the order in which the responses
\* arrive, the response handed to a caller (stored in its event, and returned
\* by its call) is the server's answer to that caller's own request and bears
\* its id, and no response is handed to two callers.
C1_CorrelationById ==
    DistinctIds =>
        /\ \A t \in Tasks :
              event[t].set => event[t].data = Response(reqId[t], t)
        /\ \A t \in Tasks :
              outcome[t] = "response" => result[t] = Response(reqId[t], t)
        /\ \A s, t \in Tasks :
              (s # t /\ event[s].set /\ event[t].set)
                  => event[s].data # event[t].data

\* C1 witness: two requests with distinct ids were written, task 1's first;
\* the response to the second arrived first and its call has returned it
\* while the first call is still registered and waiting.
C1_Witness ==
    /\ DistinctIds
    /\ outcome[2] = "response"
    /\ result[2] = Response(reqId[2], 2)
    /\ pc[1] = "waiting"
    /\ ~event[1].set
    /\ pending[reqId[1]] = 1

\* A caller that is still waiting for a response that has not been handed to it.
StillWaiting(t) == pc[t] \in {"sent", "waiting"} /\ ~event[t].set

C5_EofFailsPending ==
    (worker = "eof" /\ atEof # {}) =>
        /\ \A t \in atEof : pc[t] = "done" /\ outcome[t] = "TransportClosed"
        /\ queueShutdown

\* ------------------------------------------------------------------ claims on SpecFiles

\* Task t is outside every open_files scope and suspended nowhere.
Outside(t) == stack[t] = <<>> /\ phase[t] = "run"

\* C2 as stated: one task alone enters open_files scopes (nested ones too),
\* no call fails; once it has left them all, every didOpen it caused has been
\* followed by its didClose (one didOpen at the outer entry, one didClose at
\* the outer exit, none at the inner ones) and the reference count of every
\* file is zero.
C2_NestedScopesBalance ==
    (entered = {1} /\ ~abnormal /\ Outside(1)) =>
        \A f \in Files :
            /\ ref_count[f] = 0
            /\ nClose[f] = nOpen[f]
            /\ ~srvOpen[f]

\* C6 as stated: when no call fails, a didOpen(f) is written only for a 0->1
\* transition of the count of f and a didClose(f) only for a 1->0 transition
\* (the counts are equal when no notification is being written), and a
\* didOpen(f) never reaches a server that has f open already.
C6_OpenPerTransition ==
    ~abnormal =>
        /\ \A f \in Files : nOpen[f] <= up[f] /\ nClose[f] <= down[f]
        /\ (\A t \in Callers : phase[t] \in {"run", "requesting"}) =>
               \A f \in Files : nOpen[f] = up[f] /\ nClose[f] = down[f]
        /\ last.kind = "didOpen" => ~last.wasOpen

\* C7 as stated, read to the code's advantage: when a request issued inside a
\* scope on the files fs is written, the server has every file of fs open (its
\* didOpen was written, its didClose was not) or, at the least, a didOpen for
\* the file is being written by a scope that some task is entering.
C7_RequestBetweenOpenAndClose ==
    last.kind = "request" =>
        \/ last.wasOpen
        \/ \A f \in last.files :
               srvOpen[f] \/ \E t \in Callers :
                                 phase[t] = "opening" /\ f \in cur[t].todo

\* C8 as stated: when an exception (timeout, cancellation) propagates through
\* an open_files scope, the count of every file of the scope goes down by
\* one, and a didClose is started for those whose count reaches zero.
C8_FailedScopeReleases ==
    [][\A t \in Callers :
          (phase[t] = "run" /\ exc[t] # "none" /\ phase'[t] = "closing") =>
              \A f \in Top(t).files :
                  /\ ref_count'[f] = ref_count[f] - 1
                  /\ ref_count'[f] = 0 => f \in cur'[t].todo]_vars

\* ------------------------------------------------------------------ claims on SpecLife

\* The number of times the client wrote `method`.
Count(method) == Cardinality({k \in 1..Len(wire) : wire[k] = method})

\* The client wrote `method`.
Has(method) == \E k \in 1..Len(wire) : wire[k] = method

\* C3 as stated: initialize is written once and first; initialized only
\* after the initialize response was received; shutdown at most once; exit
\* is the last message, written after shutdown or after initialize failed;
\* and every scope that wrote initialize and has ended has written exit.
C3_LifecycleOrder ==
    /\ Count("initialize") <= 1
    /\ wire # <<>> => wire[1] = "initialize"
    /\ clientPc # "start" => Count("initialize") = 1
    /\ Has("initialized") => initResult \in {"ok", "lacking"}
    /\ Count("shutdown") <= 1
    /\ Has("exit") =>
          /\ wire[Len(wire)] = "exit"
          /\ Count("exit") = 1
          /\ Has("shutdown") \/ initResult \notin {"ok", "lacking"}
    /\ clientPc = "left" => Has("exit")

\* C9 as stated: when the capability check on the initialize response has
\* failed and the scope has ended, AssertionError was raised, initialized was
\* not written, exit was written, and the server process is gone.
C9_CapabilityCheckFails ==
    (clientPc = "left" /\ debug /\ initResult = "lacking") =>
        /\ raised = "AssertionError"
        /\ ~Has("initialized")
        /\ Has("exit")
        /\ proc \in {"exited", "killed"}

\* C10 as stated: after a successful handshake (initialized was written),
\* whichever way the body ended and whether or not the shutdown request got
\* its response, a scope that has ended has written shutdown and, after it
\* and last, exit.
C10_ShutdownThenExit ==
    (clientPc = "left" /\ Has("initialized")) =>
        \E k \in 1..Len(wire) :
            /\ wire[k] = "exit"
            /\ \E j \in 1..(k - 1) : wire[j] = "shutdown"

\* C11 as stated: a request of the application is written to the wire only
\* while the client is Ready, that is after the handshake has completed and
\* before the shutdown request is written; attempted in any other state it is
\* refused with an error and not written.
C11_OnlyReadyAccepts ==
    /\ acceptedAt \subseteq {"body", "request"}
    /\ \A st \in rejectedAt : st \notin {"body", "request"}

\* ------------------------------------------------------------------ claims on SpecStart

\* C12 as stated: the scope that is entered and left straight away always
\* terminates: shutdown is answered, exit is sent and the scope is exited,
\* whatever the server sent to the client during the session.
C12_EnterAndLeaveTerminates ==
    <>(startPc = "closed" /\ posted = <<"initialize", "initialized", "shutdown", "exit">>)

\* ------------------------------------------------------------------ claims on SpecRun
\* C13 as stated: once the run() scope of a candidate was entered, no later
\* candidate is started, whatever the body of the client scope raises, and
\* what the body raised is what the caller of the client scope gets.
C13_FirstEnteredIsOnlyServer ==
    usedAt # 0 =>
        /\ Len(attempted) = usedAt
        /\ scopePc = "raised" => callerExc = bodyExc

\* The orders in which _iter_candidate_servers may yield: the server the
\* user gave, then local (when its probe succeeded), container, local.
CandidateOrders ==
    LET given == IF serverArg = "none" THEN <<>> ELSE <<serverArg>> IN
    {given \o <<"local", "container", "local">>, given \o <<"container", "local">>}

\* C14 as stated: the candidates are tried one at a time in the order of
\* the fallback chain, each failure is kept as one cause and, when no
\* candidate could be started, _run_server raises the aggregate error with
\* exactly one cause for each candidate that was tried.
C14_FallbackChainAggregates ==
    /\ \E o \in CandidateOrders :
          /\ Len(attempted) <= Len(o)
          /\ \A i \in 1..Len(attempted) : attempted[i] = o[i]
    /\ \A i \in 1..Len(errors) : i <= Len(attempted) /\ errors[i] = attempted[i]
    /\ (scopePc = "raised" /\ usedAt = 0) =>
          /\ runServerExc = <<"AllServersFailed">>
          /\ errors = attempted

\* C15 as stated: when the local server cannot be started, entering
\* run_process raises ServerRuntimeError and nothing else.
C15_StartFailureIsServerRuntimeError ==
    entryExc \in {NoExc, ServerRuntimeErrorExc}

\* C16 as stated: once the client scope begins to exit, the server scope
\* finishes in the end with the process no longer alive, whatever the
\* server does.
C16_ServerScopeFinishes ==
    (scopePc = "exiting") ~> (scopePc \in {"returned", "raised"} /\ srvProcess # "alive")

\* C17 as stated: the server process never blocks on a full stderr pipe.
C17_StderrNeverBlocks ==
    ~srvBlocked

\* ------------------------------------------------------------------ claims on SpecPool
\* The number of times the package of call i was written to process r.
WrittenTo(r, i) ==
    Cardinality({k \in 1..Len(poolWritten[r]) : poolWritten[r][k][2] = i})

\* C18 as stated: a broadcast request is written once to each process, its
\* entry stays in the pending table until the last of the NumReplicas
\* responses has arrived, and it completes with exactly NumReplicas
\* responses.
C18_BroadcastCollectsAll ==
    \A i \in 1..Len(poolOps) :
        poolOps[i].kind = "request_all" =>
            /\ \A r \in Replicas : WrittenTo(r, i) = 1
            /\ (poolOps[i].pc = "waiting" /\ poolGot[i] < NumReplicas) => poolPending[i] = "many"
            /\ poolOps[i].pc = "done" => poolGot[i] = NumReplicas

\* C19: a request that is not a broadcast is written to exactly one
\* process, once, and a notification is written to every process, once.
C19_RequestToOneNotificationToAll ==
    \A i \in 1..Len(poolOps) :
        /\ poolOps[i].kind = "request" =>
              \E r \in Replicas :
                  /\ WrittenTo(r, i) = 1
                  /\ \A q \in Replicas \ {r} : WrittenTo(q, i) = 0
        /\ poolOps[i].kind = "notify" => \A r \in Replicas : WrittenTo(r, i) = 1

\* A request was answered and returned, and a notification sent after it
\* has been read by every process, the one that was not given the request
\* included.
C19_Witness ==
    \E i, j \in 1..Len(poolOps) :
        /\ i < j
        /\ poolOps[i].kind = "request" /\ poolOps[i].pc = "done"
        /\ poolOps[j].kind = "notify"
        /\ \A r \in Replicas : poolAnswered[r] = Len(poolWritten[r])
        /\ \E r \in Replicas : WrittenTo(r, i) = 0 /\ WrittenTo(r, j) = 1

\* ------------------------------------------------------------------ claims on SpecInbound
\* C20 as stated: a request of the server for which the client has no hook
\* is answered in the end with a MethodNotFound error that bears the id of
\* the request.
C20_UnhandledRequestIsAnswered ==
    \A i \in 1..MaxFromServer :
        (i <= Len(inb) /\ inb[i].kind = "request" /\ ~inb[i].hooked)
            ~> (\E k \in 1..Len(srvReplies) :
                    srvReplies[k].id = i /\ srvReplies[k].body = "MethodNotFound")

\* The replies written for the request i.
RepliesTo(i) == {k \in 1..Len(srvReplies) : srvReplies[k].id = i}

\* C21: every request of a server for which the client has a hook gets, in
\* the end, a response that bears its id (again and again all the requests
\* sent so far are answered, and a response once written stays written);
\* that response is written to the process that sent the request, and
\* there is never a second one.
C21_HookedRequestAnsweredOnce ==
    /\ [](\A i \in 1..Len(inb) :
            /\ Cardinality(RepliesTo(i)) <= 1
            /\ \A k \in RepliesTo(i) :
                  /\ inb[i].kind = "request" /\ inb[i].hooked
                  /\ srvReplies[k].to = inb[i].from)
    /\ []<>(\A i \in 1..Len(inb) :
              (inb[i].kind = "request" /\ inb[i].hooked) => RepliesTo(i) # {})

\* Two processes each sent a request with a hook, and the one that sent
\* the later request has its response first.
C21_Witness ==
    \E i, j \in 1..Len(inb) :
        /\ i < j
        /\ inb[i].from # inb[j].from
        /\ inb[i].kind = "request" /\ inb[i].hooked /\ inb[i].pc = "responded"
        /\ \E k \in RepliesTo(j) : srvReplies[k].to = inb[j].from /\ srvReplies[k].to # 1

\* The position of i in the sequence q (0 when it is not in it).
PosIn(q, i) == IF \E k \in 1..Len(q) : q[k] = i
               THEN CHOOSE k \in 1..Len(q) : q[k] = i ELSE 0

HandleRuns == handlers # <<>> /\ Len(handlers') < Len(handlers)

\* C23 as stated: a response whose id has no entry in the pending table
\* (here: its caller registered and then gave up, so that the entry is
\* gone) is discarded without effect: the table is as it was, the worker
\* goes on reading, and the handlers of the other responses still run.
C23_UnknownIdIsDiscarded ==
    [][(/\ HandleRuns
        /\ pending[Head(handlers).id] = NoTask
        /\ Head(handlers).for \in registered
        /\ pc[Head(handlers).for] = "done")
       => (/\ worker' = worker
           /\ handlers' = Tail(handlers)
           /\ pending' = pending)]_vars

C26_ClientCapabilitiesIsPure ==
    \A n \in 1..Len(docs) :
        /\ Deref(heap, docs[n]) = Deref(heap, docs[1])
        /\ \A k \in 1..2 : Deref(heap, fragments[n][k]) = mergeArgs[k]

\* client_capabilities() was computed twice for a class whose mix-ins both
\* declare options of the same class for a feature: two objects, neither
\* of them a document of a mix-in, and the merged options differ from both
\* declarations.
C26_Witness ==
    /\ Len(docs) = 2
    /\ docs[1] # docs[2]
    /\ \A n, m \in 1..2, k \in 1..2 : docs[n] # fragments[m][k]
    /\ Deref(heap, docs[2]).f.x \in Options
    /\ \A k \in 1..2 : Deref(heap, docs[2]).f.x # mergeArgs[k].f.x

\* The value at the path p of a tree (None when there is none).
RECURSIVE At(_, _)
At(tree, p) ==
    IF p = <<>> THEN tree
    ELSE IF tree.tag = "attrs" THEN At(tree.f[Head(p)], Tail(p))
    ELSE PyNone

Paths == {<<>>} \cup {<<k>> : k \in Fields} \cup {<<k, l>> : k \in Fields, l \in Fields}

\* Two trees are attrs instances of the same class.
SameClass(a, b) == a.tag = "attrs" /\ b.tag = "attrs" /\ a.type = b.type

\* The path p is reached by the merge of a with b: at every path above it
\* the two hold instances of the same class.
Reached(a, b, p) ==
    \A n \in 0..(Len(p) - 1) : SameClass(At(a, SubSeq(p, 1, n)), At(b, SubSeq(p, 1, n)))

\* C27: at every path the merge reaches, None on one side gives the value
\* of the other side, two instances of the same class give an instance of
\* that class (their fields are paths the merge reaches), and in every
\* other case the value of update; so a value of base that is not None is
\* kept wherever update holds None.
C27_DeepMergeRules ==
    merged.done =>
        LET base == mergeArgs[1]
            update == mergeArgs[2]
            out == Deref(heap, merged.out)
        IN  \A p \in Paths :
                Reached(base, update, p) =>
                    LET b == At(base, p)
                        u == At(update, p)
                        o == At(out, p)
                    IN  /\ u = PyNone => o = b
                        /\ b = PyNone => o = u
                        /\ (b # PyNone /\ u # PyNone) =>
                              IF SameClass(b, u)
                              THEN SameClass(o, b)
                              ELSE o = u

\* Two documents were merged whose options for a feature are of the same
\* class: a field that only base sets and a field that only update sets
\* are both in the merged options.
C27_Witness ==
    /\ merged.done
    /\ LET b == At(mergeArgs[1], <<"x">>)
           u == At(mergeArgs[2], <<"x">>)
           o == At(Deref(heap, merged.out), <<"x">>)
       IN  /\ SameClass(b, u)
           /\ b.f.x # PyNone /\ u.f.x = PyNone /\ o.f.x = b.f.x
           /\ b.f.y = PyNone /\ u.f.y # PyNone /\ o.f.y = u.f.y

\* ------------------------------------------------------------------ claims on SpecUri

\* C28 as stated: with a workspace given as a mapping of folder names to
\* paths, of one entry or of several, a relative path whose first part is
\* the name of a folder gives the uri of the rest of the path under the
\* path of that folder ("src/main.py" with {"src": "/path/to/src"} is
\* /path/to/src/main.py).
C28_FolderNameResolvesUnderFolder ==
    (/\ uriOut.exc # "unset"
     /\ rawWorkspace.kind = "mapping"
     /\ ~filePath.abs
     /\ filePath.parts[1] \in DOMAIN rawWorkspace.map)
    => (/\ uriOut.exc = "none"
        /\ uriOut.uri = path_as_uri(rawWorkspace.map[filePath.parts[1]] \o Tail(filePath.parts)))

\* ------------------------------------------------------------------ claims on SpecConf

\* C29: a client that supports configuration requests has no
\* configuration map before its scope is first entered unless the user
\* gave it one; the entry changes the map only when there was none and
\* the client has a default, and then to that default; a map the user
\* gave is the map after the entry.
C29_DefaultMapOnlyWhenNone ==
    /\ (supportsConf /\ entries = 0) => configuration_map \in {NoMap} \cup UserMaps
    /\ ~supportsConf => configuration_map = NoMap
    /\ confPc = "entered" =>
          /\ configuration_map # mapBefore =>
                (supportsConf /\ mapBefore = NoMap /\ defaultConf # NoMap
                    /\ configuration_map = defaultConf)
          /\ (supportsConf /\ mapBefore = NoMap) => configuration_map = defaultConf
          /\ mapBefore \in UserMaps => configuration_map = mapBefore

\* A client with a default map was entered once without a map and has the
\* default; the user then gave it a map, and in the scope entered again
\* the client has the user's map.
C29_Witness ==
    /\ confPc = "entered"
    /\ entries = 2
    /\ supportsConf
    /\ defaultConf = DefaultMap
    /\ mapBefore \in UserMaps
    /\ configuration_map = mapBefore

\* ------------------------------------------------------------------ claims on SpecFrame

\* The frames after the k-th are what is left in the stream.
AtFrame(k) == inBytes = stream_of(SubSeq(frames, k + 1, Len(frames)))

\* C24 as stated: a frame written by write_raw_package is read back as the
\* package written, and the stream is then at the start of the next frame;
\* a frame that announces a body of zero bytes passes the framing, and
\* what rejects it is the JSON decoding of the empty body.
C24_FramingRoundTrip ==
    \A k \in 1..Len(readOut) :
        (/\ k <= Len(frames)
         /\ frames[k].kind \in {"written", "empty"}
         /\ \A j \in 1..(k - 1) : frames[j].kind = "written")
        => /\ frames[k].kind = "written" =>
                 (readOut[k].exc = "none" /\ readOut[k].package = frames[k].package)
           /\ frames[k].kind = "empty" => readOut[k].exc = "JSONDecodeError"
           /\ k = Len(readOut) => AtFrame(k)

\* C25 as stated: whether the name of the Content-Length header is in
\* lower case or not and whether a Content-Type header stands before or
\* after it, the frame is read as the package of the frame without them,
\* and the stream is then at the start of the next frame.
C25_HeaderBlockIsParsed ==
    \A k \in 1..Len(readOut) :
        (/\ k <= Len(frames)
         /\ \A j \in 1..k : frames[j].kind \in FrameKinds)
        => /\ readOut[k].exc = "none"
           /\ readOut[k].package = frames[k].package
           /\ k = Len(readOut) => AtFrame(k)

\* ------------------------------------------------------------------ claims on SpecShot
\* The items of the calls of send that were accepted, in order.
RECURSIVE AcceptedItems(_)
AcceptedItems(calls) ==
    IF calls = <<>> THEN <<>>
    ELSE LET rest == AcceptedItems(SubSeq(calls, 1, Len(calls) - 1))
             c == calls[Len(calls)]
         IN  IF c.raised = "nothing" THEN Append(rest, c.item) ELSE rest

\* C31: the sender of a channel accepts exactly the first expect_count calls
\* of send (one for a one-shot channel) and raises on every later one, which
\* changes nothing of what the receiver obtains; receive does not return
\* before expect_count items were sent, and it returns them in the order in
\* which they were sent.
C31_SenderAcceptsExpectedCount ==
    shotEvent.kind # "none" =>
        /\ \A k \in 1..Len(shotCalls) :
              (shotCalls[k].raised = "nothing") <=> (k <= shotEvent.expect_count)
        /\ shotEvent.is_set <=> Len(shotCalls) >= shotEvent.expect_count
        /\ shotEvent.is_set =>
              shotEvent.data = [k \in 1..shotEvent.expect_count |-> shotCalls[k].item]
        /\ shotGot.done =>
              /\ Len(shotCalls) >= shotEvent.expect_count
              /\ shotGot.value = [k \in 1..shotEvent.expect_count |-> shotCalls[k].item]
              /\ shotGot.value = shotEvent.data

C31_Witness ==
    /\ shotEvent.kind = "many"
    /\ shotEvent.expect_count = MaxExpect
    /\ Len(shotCalls) > MaxExpect
    /\ shotCalls[Len(shotCalls)].raised = "RuntimeError"
    /\ shotGot.done
    /\ shotGot.value[1] # shotGot.value[MaxExpect]

\* ------------------------------------------------------------------ claims on the pending table
\* Task t runs its registration: ShotTable.register, reached through
\* ShotTable.wait.
Registers(t) == /\ pc[t] = "sent"
                /\ pc'[t] # "sent"
                /\ outcome'[t] \in {"none", "ValueError"}

\* C32: a registration of an id that is in the pending table fails with an
\* error and leaves the table as it was, the existing entry included; of two
\* tasks that register one id, one succeeds.
C32_DuplicateRegistrationKeepsEntry ==
    [][\A t \in Tasks :
          (Registers(t) /\ pending[reqId[t]] # NoTask) =>
              /\ outcome'[t] = "ValueError"
              /\ pending' = pending]_vars

\* No task will register again and none is registered: the table is empty
\* for good.
TableDrained == /\ tblPending = {}
                /\ \A t \in Tasks : tblPc[t] \notin {"idle", "waiting"}

\* C33: wait_complete returns only when the pending table is empty, and once
\* the table is empty (its last entry removed by a response, by a timeout or
\* by the cancellation of the waiting caller) every task blocked in
\* wait_complete returns in the end.
C33_WaitCompleteReturnsWhenEmpty ==
    /\ [][\A w \in Drainers :
             (drainPc[w] # "returned" /\ drainPc'[w] = "returned") => tblPending = {}]_vars
    /\ \A w \in Drainers :
          [](TableDrained /\ drainPc[w] \in {"blocked", "notified"}
                => <>(drainPc[w] = "returned"))

\* ------------------------------------------------------------------ claims on SpecClassify
\* The places of package n in the response table and in the channel.
InTable(n) == {k \in 1..Len(rxTable) : rxTable[k].n = n}

InChannel(n) == {k \in 1..Len(rxChannel) : rxChannel[k].n = n}

\* Package n was read and its task has run.
Handled(n) == n <= rxRead /\ n \notin rxTasks

IsResponse(p) == "id" \in p.keys /\ p.keys \cap {"result", "error"} # {} /\ "method" \notin p.keys

IsRequest(p) == "id" \in p.keys /\ "method" \in p.keys /\ p.keys \cap {"result", "error"} = {}

IsNotification(p) == "method" \in p.keys /\ "id" \notin p.keys

\* C34: every package the read loop has handled went to one place, by its
\* keys: with an id and a result or an error only to the response table,
\* under its id; with an id and a method only to the channel, once, with a
\* reply sender that no other item of the channel has; with a method and no
\* id only to the channel, once, with no sender.
C34_ClassifiedByShape ==
    \A n \in 1..Len(rxWire) : Handled(n) =>
        LET p == rxWire[n]
        IN  /\ IsResponse(p) =>
                  /\ InChannel(n) = {}
                  /\ Cardinality(InTable(n)) = 1
                  /\ \A k \in InTable(n) : rxTable[k].id = p.id
            /\ IsRequest(p) =>
                  /\ InTable(n) = {}
                  /\ Cardinality(InChannel(n)) = 1
                  /\ \A k \in InChannel(n) :
                        /\ rxChannel[k].tx # 0
                        /\ \A j \in 1..Len(rxChannel) :
                              rxChannel[j].tx = rxChannel[k].tx => j = k
            /\ IsNotification(p) =>
                  /\ InTable(n) = {}
                  /\ Cardinality(InChannel(n)) = 1
                  /\ \A k \in InChannel(n) : rxChannel[k].tx = 0

C34_Witness ==
    /\ Len(rxWire) >= 2
    /\ \A n \in 1..2 : Handled(n) /\ IsRequest(rxWire[n])
    /\ Len(rxChannel) = 2
    /\ rxTable = <<>>

\* ------------------------------------------------------------------ more claims on SpecInbound
\* The packages the read loops have read and the dispatcher of the client has
\* not taken yet.
ReadNotTaken == {i \in 1..Len(inb) : inb[i].pc \in {"spawned", "queued"}}

\* A capacity of the channel that is less than what the servers write.
ChannelCapacity == MaxFromServer - 1

\* C35: the packages read and not yet taken by the dispatcher are never more
\* than the channel holds: a read loop does not read on when it is full.
C35_ReadAheadWithinCapacity == Cardinality(ReadNotTaken) <= ChannelCapacity

\* ------------------------------------------------------------------ claims on SpecWire
\* The bytes of the messages of a log, one message after the other.
RECURSIVE MessagesInOrder(_)
MessagesInOrder(log) ==
    IF log = <<>> THEN <<>>
    ELSE MessagesInOrder(SubSeq(log, 1, Len(log) - 1)) \o log[Len(log)].bytes

StartsWith(s, p) == Len(p) <= Len(s) /\ SubSeq(s, 1, Len(p)) = p

\* C36: whatever tasks send at the same time, the bytes written to the
\* server (those the pipe has taken, then those in the buffer of the
\* transport) are the messages one after the other, header and body of each
\* together: whole when no send is under way.
C36_MessagesAreContiguous ==
    /\ StartsWith(MessagesInOrder(wrLog), wrPipe \o wrBuffer)
    /\ (\A t \in Writers : wrLeft[t] = <<>>) => wrPipe \o wrBuffer = MessagesInOrder(wrLog)

C36_Witness ==
    /\ Len(wrLog) = 2
    /\ wrLog[1].by # wrLog[2].by
    /\ wrLog[1].bytes # wrLog[2].bytes
    /\ \A t \in Writers : wrPc[t] = "draining"
    /\ wrPipe # <<>>
    /\ Len(wrBuffer) > Len(wrLog[2].bytes)

\* ------------------------------------------------------------------ claims on SpecDown
\* Every item the client put on the channel was written to the process.
AllWritten == \A i \in 1..Len(dnItems) : \E k \in 1..Len(dnWritten) : dnWritten[k] = i

C38_TaskDoneOncePerItem ==
    /\ [](qDoneCalls = qProcessed)
    /\ [](qRaised = {})
    /\ [][(qJoin # "returned" /\ qJoin' = "returned") => qProcessed = qSent]_vars

\* ------------------------------------------------------------------ claims on SpecDefault
\* C39: whatever the updates, dotted keys included, every call of
\* client_capabilities_with_default returns a document of its own and the
\* module-level default document stays as it was declared: a call without
\* update gives the declared document, whatever the calls before it.
C39_DefaultIsLeftUnchanged ==
    /\ Deref(defHeap, DefaultRef) = FULL_FEATURED_CLIENT_CAPABILITY
    /\ \A k \in 1..Len(defCalls) :
          /\ defCalls[k].returned # DefaultRef
          /\ \A j \in 1..(k - 1) : defCalls[j].returned # defCalls[k].returned
          /\ defCalls[k].update = <<>> =>
                Deref(defHeap, defCalls[k].returned) = FULL_FEATURED_CLIENT_CAPABILITY

\* ------------------------------------------------------------------ claims on SpecAssoc
\* C40: attrs_merge is associative: for any three capability documents,
\* merging the first two and then the third gives a document equal to
\* merging the first with the merge of the other two.
C40_MergeIsAssociative == assocOut.done => assocOut.left = assocOut.right

====
